---- MODULE Spec2Model ----
(***************************************************************************)
(* Update-cycle coordinator of the Tiny Desk tracker: the distributed      *)
(* update lock (table-based TTL lock and native advisory lock), the        *)
(* catalog ingestor, the persistence of a batch and the update() driver,   *)
(* run by several triggers / instances that share one storage.             *)
(***************************************************************************)
EXTENDS Integers, Sequences, FiniteSets, TLC

\* ------------------------------------------------------------------ bounds
MaxTime == 3
LockTtl == 1
MaxUpdates == 2

\* ------------------------------------------------- processes and instances
\* An update cycle is run by a trigger thread of some instance. Two triggers
\* may belong to one instance (one host name) or to two instances.
Procs == {"p1", "p2"}

Hosts == {"h1", "h2"}

Dialects == {"sqlite", "postgresql"}

LockName == "tinydesk_update_lock"

NULL == "<NULL>"

NoHandle == [kind |-> "none", owner |-> ""]

VARIABLES
    now,          \* the wall clock, int(time.time())
    dialect,      \* engine.dialect.name of the shared storage
    host,         \* socket.gethostname() of the instance each trigger runs in
    locks,        \* table locks: set of rows [key, owner, expires_at]
    advisory,     \* connections holding the pg advisory lock (by process)
    conns,        \* open dedicated lock connections (by process)
    videos,       \* table videos: set of rows
    history,      \* table history: sequence of rows in insertion order
    history_id,   \* last value of the history id sequence
    metadata,     \* table metadata: function key -> value
    pc,           \* position of each trigger inside update()
    lock_handle,  \* update(): lock_handle
    acq_now,      \* acquire_update_lock(): now
    fetched,      \* update(): videos
    timestamp,    \* update_historical_data(): timestamp
    idx,          \* update_historical_data(): loop index
    exc,          \* an exception is propagating out of the inner try block
    calls,        \* collaborator calls made by the current update() call
    last,         \* the update() call that returned last, as its caller saw it
    updates,      \* number of update() calls started so far
    overrun,      \* history: some cycle was in its lock-held part past its expiry
    settings,     \* Settings: update_cron, update_schedule, update_interval_hours
    zone,         \* the local time zone of the container
    last_update_ts, \* compute_next_update_timestamp(): last_update_ts
    reference,    \* compute_next_update_timestamp(): now, as an instant
    next_update,  \* what compute_next_update_timestamp returned last
    loop_pc,      \* start_cron_scheduler._loop: position of the timer thread
    base,         \* _loop: base, a naive local datetime
    next_dt,      \* _loop: next_dt, a naive local datetime
    clock,        \* the instant, in seconds, as the timer thread meets it
    fired,        \* the last tracker.update() call of the loop: target, start, end
    loop_fires,   \* number of tracker.update() calls the loop has made
    store_calls,  \* the set_metadata and save_video calls made directly, in order
    jobs          \* schedule.jobs: the jobs registered with the schedule library

stor == <<locks, advisory, conns, videos, history, history_id, metadata>>
locals == <<pc, lock_handle, acq_now, fetched, timestamp, idx, exc, calls>>
cronloop == <<loop_pc, base, next_dt, clock, fired, loop_fires>>
sched == <<settings, zone, last_update_ts, reference, next_update, cronloop, store_calls, jobs>>
vars == <<now, dialect, host, stor, locals, last, updates, overrun, sched>>

NoCalls == [fetch |-> 0, release |-> 0]

\* ------------------------------------------------------------ lock manager
\* Mutant of LockInsert: INSERT OR REPLACE, which overwrites an existing row.
LockInsertOrReplace(rows, o, e) ==
    [rows |-> {r \in rows : r.key # LockName}
              \cup {[key |-> LockName, owner |-> o, expires_at |-> e]},
     rowcount |-> 1]

\* INSERT INTO locks ... ON CONFLICT(key) DO NOTHING
LockInsert(rows, o, e) ==
    IF \E r \in rows : r.key = LockName
    THEN [rows |-> rows, rowcount |-> 0]
    ELSE [rows |-> rows \cup {[key |-> LockName, owner |-> o, expires_at |-> e]},
          rowcount |-> 1]

\* Mutant of LockTakeover: the UPDATE without its expiry condition.
LockTakeoverAnyRow(rows, o, e, n) ==
    LET hit == {r \in rows : r.key = LockName}
    IN  [rows |-> (rows \ hit) \cup
                  {[key |-> r.key, owner |-> o, expires_at |-> e] : r \in hit},
         rowcount |-> Cardinality(hit)]

\* Mutant of LockTakeover: expires_at <= :now instead of expires_at < :now.
LockTakeoverAtExpiry(rows, o, e, n) ==
    LET hit == {r \in rows : r.key = LockName /\ r.expires_at <= n}
    IN  [rows |-> (rows \ hit) \cup
                  {[key |-> r.key, owner |-> o, expires_at |-> e] : r \in hit},
         rowcount |-> Cardinality(hit)]

\* Mutant of LockTakeover: a caller also takes over a live row that carries
\* its own owner name.
LockTakeoverOwnName(rows, o, e, n) ==
    LET hit == {r \in rows : r.key = LockName /\ (r.expires_at < n \/ r.owner = o)}
    IN  [rows |-> (rows \ hit) \cup
                  {[key |-> r.key, owner |-> o, expires_at |-> e] : r \in hit},
         rowcount |-> Cardinality(hit)]

\* UPDATE locks SET owner, expires_at WHERE key = :k AND expires_at < :now
LockTakeover(rows, o, e, n) ==
    LET hit == {r \in rows : r.key = LockName /\ r.expires_at < n}
    IN  [rows |-> (rows \ hit) \cup
                  {[key |-> r.key, owner |-> o, expires_at |-> e] : r \in hit},
         rowcount |-> Cardinality(hit)]

\* Mutant of AcquireTable: the insert alone, without the takeover statement.
AcquireTableInsertOnly(rows, o, n, ttl) ==
    LET ins == LockInsert(rows, o, n + ttl)
    IN  IF ins.rowcount # 0 THEN [rows |-> ins.rows, handle |-> [kind |-> "dict", owner |-> o]]
        ELSE [rows |-> rows, handle |-> NoHandle]

\* Mutant of AcquireTable: a handle is returned whatever the row counts say.
AcquireTableAlwaysHandle(rows, o, n, ttl) ==
    LET ins == LockInsert(rows, o, n + ttl)
        upd == LockTakeover(rows, o, n + ttl, n)
    IN  IF ins.rowcount # 0 THEN [rows |-> ins.rows, handle |-> [kind |-> "dict", owner |-> o]]
        ELSE [rows |-> upd.rows, handle |-> [kind |-> "dict", owner |-> o]]

\* Mutant of AcquireTable: the takeover compares the row's expiry with the
\* new expiry instead of the clock reading.
AcquireTableLateClock(rows, o, n, ttl) ==
    LET ins == LockInsert(rows, o, n + ttl)
        upd == LockTakeover(rows, o, n + ttl, n + ttl)
    IN  IF ins.rowcount # 0 THEN [rows |-> ins.rows, handle |-> [kind |-> "dict", owner |-> o]]
        ELSE IF upd.rowcount # 0 THEN [rows |-> upd.rows, handle |-> [kind |-> "dict", owner |-> o]]
        ELSE [rows |-> rows, handle |-> NoHandle]

\* Mutant of AcquireTable: a denied attempt renews the expiry of the row.
AcquireTableRenews(rows, o, n, ttl) ==
    LET ins == LockInsert(rows, o, n + ttl)
        upd == LockTakeover(rows, o, n + ttl, n)
    IN  IF ins.rowcount # 0 THEN [rows |-> ins.rows, handle |-> [kind |-> "dict", owner |-> o]]
        ELSE IF upd.rowcount # 0 THEN [rows |-> upd.rows, handle |-> [kind |-> "dict", owner |-> o]]
        ELSE [rows |-> {[r EXCEPT !.expires_at = n + ttl] : r \in rows},
              handle |-> NoHandle]

\* The transaction of the table-based acquire_update_lock.
AcquireTable(rows, o, n, ttl) ==
    LET ins == LockInsert(rows, o, n + ttl)
        upd == LockTakeover(rows, o, n + ttl, n)
    IN  IF ins.rowcount # 0 THEN [rows |-> ins.rows, handle |-> [kind |-> "dict", owner |-> o]]
        ELSE IF upd.rowcount # 0 THEN [rows |-> upd.rows, handle |-> [kind |-> "dict", owner |-> o]]
        ELSE [rows |-> rows, handle |-> NoHandle]

\* Mutant of ReleaseTable: the DELETE compares the key column with the owner.
ReleaseTableWrongKey(rows, handle) ==
    LET owner == IF handle.kind = "dict" THEN handle.owner ELSE ""
    IN  IF owner # ""
        THEN {r \in rows : ~(r.key = owner /\ r.owner = owner)}
        ELSE {r \in rows : r.key # LockName}

\* The table-based branch of release_update_lock.
ReleaseTable(rows, handle) ==
    LET owner == IF handle.kind = "dict" THEN handle.owner ELSE ""
    IN  IF owner # ""
        THEN {r \in rows : ~(r.key = LockName /\ r.owner = owner)}
        ELSE {r \in rows : r.key # LockName}

\* ----------------------------------------------------------- history store
HistoryLimit == 100

SeqToSet(s) == {s[i] : i \in 1..Len(s)}

\* str(n) of a non-negative integer, as its sequence of decimal digits
RECURSIVE str(_)
str(n) == IF n < 10 THEN <<n>> ELSE Append(str(n \div 10), n % 10)

\* int(s) of a sequence of decimal digits
RECURSIVE int(_)
int(s) == IF Len(s) = 0 THEN 0
          ELSE 10 * int(SubSeq(s, 1, Len(s) - 1)) + s[Len(s)]

\* COALESCE(a, b)
COALESCE(a, b) == IF a # NULL THEN a ELSE b

\* INSERT INTO videos ... ON CONFLICT(video_id) DO UPDATE SET ...
UpsertVideo(rows, video_id, title, view_count, ts, published_at) ==
    LET old == {r \in rows : r.video_id = video_id}
        keep == IF old = {} THEN NULL ELSE (CHOOSE r \in old : TRUE).published_at
    IN  (rows \ old) \cup
        {[video_id |-> video_id, title |-> title, current_views |-> view_count,
          last_updated |-> ts,
          published_at |-> IF old = {} THEN published_at
                           ELSE COALESCE(published_at, keep)]}

\* INSERT INTO history (video_id, timestamp, view_count)
InsertHistory(hist, id, video_id, ts, view_count) ==
    Append(hist, [id |-> id, video_id |-> video_id, timestamp |-> ts,
                  view_count |-> view_count])

\* The k-element subsets of S.
RECURSIVE KSubsets(_, _)
KSubsets(S, k) ==
    IF k = 0 THEN {{}}
    ELSE UNION {{Y \cup {x} : Y \in KSubsets(S \ {x}, k - 1)} : x \in S}

\* SELECT id FROM ranked WHERE rn > limit, with rn = ROW_NUMBER() OVER
\* (PARTITION BY video_id ORDER BY timestamp DESC): the sets of rows that some
\* numbering of the rows by descending timestamp ranks beyond limit. Rows of
\* equal timestamp are numbered in any order, so the rows that are beyond the
\* limit in every numbering (sure) come with any choice among the rows tied
\* at the limit (tied).
RankedBeyond(rows, limit) ==
    LET k == Cardinality(rows) - limit
        sure == {r \in rows :
                    Cardinality({x \in rows : x.timestamp <= r.timestamp}) <= k}
        tied == {r \in rows \ sure :
                    Cardinality({x \in rows : x.timestamp < r.timestamp}) < k}
    IN  IF k <= 0 THEN {{}}
        ELSE {sure \cup X : X \in KSubsets(tied, k - Cardinality(sure))}

\* Mutant of PruneChoices: the rows are ranked by ascending timestamp.
PruneChoicesNewest(hist, video_id) ==
    LET rows == {r \in SeqToSet(hist) : r.video_id = video_id}
        flip(r) == [r EXCEPT !.timestamp = 0 - r.timestamp]
    IN  {{r.id : r \in {x \in rows : flip(x) \in D}} :
            D \in RankedBeyond({flip(r) : r \in rows}, HistoryLimit)}

\* DELETE FROM history WHERE id IN (SELECT id FROM ranked WHERE rn > 100):
\* the sets of ids the statement may delete.
PruneChoices(hist, video_id) ==
    LET rows == {r \in SeqToSet(hist) : r.video_id = video_id}
    IN  {{r.id : r \in D} : D \in RankedBeyond(rows, HistoryLimit)}

DeleteHistory(hist, ids) == SelectSeq(hist, LAMBDA r : r.id \notin ids)

\* Mutant of UpsertMetadata: ON CONFLICT(key) DO NOTHING.
UpsertMetadataKeepFirst(md, key, value) ==
    [k \in DOMAIN md \cup {key} |-> IF k \in DOMAIN md THEN md[k] ELSE value]

\* INSERT INTO metadata ... ON CONFLICT(key) DO UPDATE SET value = EXCLUDED.value
UpsertMetadata(md, key, value) ==
    [k \in DOMAIN md \cup {key} |-> IF k = key THEN value ELSE md[k]]

\* The order the engine returns rows of equal sort key in is not defined by
\* the statement; the outcomes kept here are insertion order and its reverse.
TieOrders == {"asc", "desc"}

\* a sorts before b under ORDER BY timestamp ASC with the given tie order
Before(a, b, tie) ==
    \/ a.timestamp < b.timestamp
    \/ /\ a.timestamp = b.timestamp
       /\ IF tie = "asc" THEN a.id < b.id ELSE a.id > b.id

\* ORDER BY timestamp ASC of a sequence of rows: each row at the position
\* after the rows that sort before it.
OrderByTimestamp(rows, tie) ==
    LET n == Len(rows)
        pos == [i \in 1..n |->
                   1 + Cardinality({j \in 1..n : Before(rows[j], rows[i], tie)})] \o <<>>
    IN  [k \in 1..n |-> rows[CHOOSE i \in 1..n : pos[i] = k]] \o <<>>

\* get_video_history(video_id): SELECT timestamp, view_count FROM history
\* WHERE video_id = :video_id ORDER BY timestamp ASC, as a list of dicts.
get_video_history(hist, video_id, tie) ==
    LET rows == SelectSeq(hist, LAMBDA r : r.video_id = video_id)
        sorted == OrderByTimestamp(rows, tie)
    IN  [i \in 1..Len(sorted) |->
            [timestamp |-> sorted[i].timestamp, viewCount |-> sorted[i].view_count]] \o <<>>

\* -------------------------------------------------------- catalog ingestor
\* dict.get(key, default)
Get(d, k, default) == IF k \in DOMAIN d THEN d[k] ELSE default

\* A playlist entry: {"snippet": {"resourceId": {"videoId": v}}}, or one that
\* carries no video reference.
Entry(v) == [snippet |-> [resourceId |-> [videoId |-> v]]]
BadEntry == [snippet |-> [title |-> "ignored"]]

\* An item of a statistics response.
Stat(v, t, n, d) ==
    [id |-> v, snippet |-> [title |-> t, publishedAt |-> d],
     statistics |-> [viewCount |-> n]]
BareStat(v) == [id |-> v, snippet |-> [channelId |-> "c"], statistics |-> [likeCount |-> <<1>>]]

\* A page of the playlist as the API collaborator answers it: the list call
\* raises or returns items and a continuation token (0: none, else the index
\* of the page the token stands for); the statistics call for the page's ids
\* raises or returns stats.
Page(items, token, stats) ==
    [raises |-> FALSE, items |-> items, nextPageToken |-> token,
     stats_raises |-> FALSE, stats |-> stats]
ListFails == [raises |-> TRUE, items |-> <<>>, nextPageToken |-> 0,
              stats_raises |-> FALSE, stats |-> <<>>]
StatsFail(items, token) ==
    [raises |-> FALSE, items |-> items, nextPageToken |-> token,
     stats_raises |-> TRUE, stats |-> <<>>]

\* One page, two items, statistics answered in another order than asked.
CatalogOnePage ==
    <<Page(<<Entry("v1"), Entry("v2")>>, 0,
           <<Stat("v2", "T2", <<2, 0>>, "2020-01-02"),
             Stat("v1", "T1", <<1, 0>>, "2020-01-01")>>)>>

\* Two pages that both list v1 (a playlist may hold a video twice), the
\* first with an entry that carries no reference; the views moved in between.
CatalogRepeat ==
    <<Page(<<Entry("v1"), BadEntry>>, 2, <<Stat("v1", "T1", <<1, 1>>, "2020-01-01")>>),
      Page(<<Entry("v1")>>, 0, <<Stat("v1", "T1b", <<1, 2>>, "2020-01-01")>>)>>

\* A page without any reference, then a page whose statistics lack fields.
CatalogSparse ==
    <<Page(<<BadEntry>>, 2, <<>>),
      Page(<<Entry("v2")>>, 0, <<BareStat("v2")>>)>>

\* The list call fails on the second page.
CatalogListFails ==
    <<Page(<<Entry("v1")>>, 2, <<Stat("v1", "T1", <<1, 3>>, "2020-01-01")>>),
      ListFails>>

\* The statistics call fails.
CatalogStatsFail == <<StatsFail(<<Entry("v1")>>, 0)>>

\* No items at all.
CatalogEmpty == <<Page(<<>>, 0, <<>>)>>

\* A page without any reference between two pages with videos.
CatalogHoles ==
    <<Page(<<Entry("v1")>>, 2, <<Stat("v1", "T1", <<1, 4>>, "2020-01-01")>>),
      Page(<<BadEntry, BadEntry>>, 3, <<>>),
      Page(<<Entry("v2")>>, 0, <<Stat("v2", "T2", <<2, 4>>, "2020-01-02")>>)>>

\* A page without items that carries a token all the same, before a page
\* with a video; and a page whose statistics call fails, after a page read.
CatalogGap ==
    <<Page(<<Entry("v1")>>, 2, <<Stat("v1", "T1", <<1, 5>>, "2020-01-01")>>),
      Page(<<>>, 3, <<>>),
      Page(<<Entry("v2")>>, 0, <<Stat("v2", "T2", <<2, 5>>, "2020-01-02")>>)>>

CatalogStatsFailLater ==
    <<Page(<<Entry("v1")>>, 2, <<Stat("v1", "T1", <<1, 6>>, "2020-01-01")>>),
      StatsFail(<<Entry("v2")>>, 3),
      Page(<<Entry("v2")>>, 0, <<Stat("v2", "T2", <<2, 6>>, "2020-01-02")>>)>>

\* What the external catalog may hold when a cycle fetches.
AllCatalogs == {CatalogOnePage, CatalogRepeat, CatalogSparse, CatalogListFails,
                CatalogStatsFail, CatalogEmpty}

\* The same and the catalogs of three pages.
PagedCatalogs == AllCatalogs \cup {CatalogHoles, CatalogGap, CatalogStatsFailLater}

\* A statistics item whose view count is the empty text.
BlankCountStat(v) ==
    [id |-> v, snippet |-> [title |-> "T"], statistics |-> [viewCount |-> <<>>]]

\* A statistics item without an id.
NoIdStat == [snippet |-> [title |-> "T"], statistics |-> [viewCount |-> <<7>>]]

\* Entries and statistics items that lack fields, among complete ones.
CatalogMissingFields ==
    <<Page(<<Entry("v1"), BadEntry, Entry("v2")>>, 0,
           <<BareStat("v1"), Stat("v2", "T2", <<2, 7>>, "2020-01-02")>>)>>

\* A view count that is no number, after a page read and beside a good item.
CatalogBlankCount ==
    <<Page(<<Entry("v1")>>, 2, <<Stat("v1", "T1", <<1, 8>>, "2020-01-01")>>),
      Page(<<Entry("v1"), Entry("v2")>>, 0,
           <<BlankCountStat("v1"), Stat("v2", "T2", <<2, 8>>, "2020-01-02")>>)>>

\* A statistics item without an id beside a good item.
CatalogNoId ==
    <<Page(<<Entry("v1"), Entry("v2")>>, 0,
           <<Stat("v1", "T1", <<1, 9>>, "2020-01-01"), NoIdStat>>)>>

\* Catalogs whose items lack fields or carry malformed ones.
MalformedCatalogs == {CatalogSparse, CatalogMissingFields, CatalogBlankCount, CatalogNoId}

\* Every catalog the ingestor is followed on.
IngestCatalogs == PagedCatalogs \cup MalformedCatalogs

\* The catalogs met by cycles that run beside other cycles.
Catalogs == {CatalogOnePage, CatalogListFails}

\* item["snippet"]["resourceId"]["videoId"] for the items that carry one
VideoIdsOf(items) ==
    LET ref(it) == Get(Get(Get(it, "snippet", <<>>), "resourceId", <<>>), "videoId", "")
        good == SelectSeq(items, LAMBDA it : ref(it) # "")
    IN  [i \in 1..Len(good) |-> ref(good[i])]

\* int(text) raises ValueError for a text that is no decimal number; of the
\* view counts met here that is the empty text.
IntRaises(text) == text = <<>>

\* Building the dict for one statistics item raises: item["id"] without an
\* id (KeyError), int() of a view count that is no number (ValueError).
VideoRaises(item) ==
    \/ "id" \notin DOMAIN item
    \/ IntRaises(Get(Get(item, "statistics", <<>>), "viewCount", <<0>>))

\* The dict fetch_all_videos appends for one statistics item.
VideoOf(item) ==
    LET snippet == Get(item, "snippet", <<>>)
        statistics == Get(item, "statistics", <<>>)
    IN  [videoId |-> item.id,
         title |-> Get(snippet, "title", ""),
         viewCount |-> int(Get(statistics, "viewCount", <<0>>)),
         publishedAt |-> Get(snippet, "publishedAt", "")]

\* The requests the API collaborator receives: the list call for the page a
\* token stands for (page 1: no token), the statistics call with a page's ids.
ListCall(page_num) == [call |-> "list", page |-> page_num, ids |-> <<>>]

StatsCall(page_num, video_ids) == [call |-> "stats", page |-> page_num, ids |-> video_ids]

\* What fetch_all_videos comes to: it raises or returns videos, after the
\* requests of log.
Fetched(raised, all_videos, log) ==
    [raised |-> raised, videos |-> all_videos, api |-> Len(log), log |-> log]

\* Mutant of FetchLoop: a page without any video reference ends the loop.
RECURSIVE FetchLoopStopsAtBarePage(_, _, _, _)
FetchLoopStopsAtBarePage(catalog, page_num, all_videos, log) ==
    LET playlist_results == catalog[page_num]
        items == playlist_results.items
        video_ids == VideoIdsOf(items)
        page_token == playlist_results.nextPageToken
        stats_items == playlist_results.stats
        collected == all_videos \o [i \in 1..Len(stats_items) |-> VideoOf(stats_items[i])]
        listed == Append(log, ListCall(page_num))
        asked == Append(listed, StatsCall(page_num, video_ids))
    IN  IF playlist_results.raises THEN Fetched(TRUE, <<>>, listed)
        ELSE IF Len(items) = 0 THEN Fetched(FALSE, all_videos, listed)
        ELSE IF Len(video_ids) = 0 THEN Fetched(FALSE, all_videos, listed)
        ELSE IF playlist_results.stats_raises THEN Fetched(TRUE, <<>>, asked)
        ELSE IF \E i \in 1..Len(stats_items) : VideoRaises(stats_items[i])
        THEN Fetched(TRUE, <<>>, asked)
        ELSE IF page_token = 0 THEN Fetched(FALSE, collected, asked)
        ELSE FetchLoopStopsAtBarePage(catalog, page_token, collected, asked)

\* Mutant of FetchLoop: a page without items that carries a token is passed
\* over like a page without video references.
RECURSIVE FetchLoopPastEmptyPage(_, _, _, _)
FetchLoopPastEmptyPage(catalog, page_num, all_videos, log) ==
    LET playlist_results == catalog[page_num]
        items == playlist_results.items
        video_ids == VideoIdsOf(items)
        page_token == playlist_results.nextPageToken
        stats_items == playlist_results.stats
        collected == all_videos \o [i \in 1..Len(stats_items) |-> VideoOf(stats_items[i])]
        listed == Append(log, ListCall(page_num))
        asked == Append(listed, StatsCall(page_num, video_ids))
    IN  IF playlist_results.raises THEN Fetched(TRUE, <<>>, listed)
        ELSE IF Len(video_ids) = 0
        THEN IF page_token = 0 THEN Fetched(FALSE, all_videos, listed)
             ELSE FetchLoopPastEmptyPage(catalog, page_token, all_videos, listed)
        ELSE IF playlist_results.stats_raises THEN Fetched(TRUE, <<>>, asked)
        ELSE IF \E i \in 1..Len(stats_items) : VideoRaises(stats_items[i])
        THEN Fetched(TRUE, <<>>, asked)
        ELSE IF page_token = 0 THEN Fetched(FALSE, collected, asked)
        ELSE FetchLoopPastEmptyPage(catalog, page_token, collected, asked)

\* Mutant of FetchLoop: a call that fails is made a second time.
RECURSIVE FetchLoopRetries(_, _, _, _)
FetchLoopRetries(catalog, page_num, all_videos, log) ==
    LET playlist_results == catalog[page_num]
        items == playlist_results.items
        video_ids == VideoIdsOf(items)
        page_token == playlist_results.nextPageToken
        stats_items == playlist_results.stats
        collected == all_videos \o [i \in 1..Len(stats_items) |-> VideoOf(stats_items[i])]
        listed == Append(log, ListCall(page_num))
        asked == Append(listed, StatsCall(page_num, video_ids))
    IN  IF playlist_results.raises
        THEN Fetched(TRUE, <<>>, Append(listed, ListCall(page_num)))
        ELSE IF Len(items) = 0 THEN Fetched(FALSE, all_videos, listed)
        ELSE IF Len(video_ids) = 0
        THEN IF page_token = 0 THEN Fetched(FALSE, all_videos, listed)
             ELSE FetchLoopRetries(catalog, page_token, all_videos, listed)
        ELSE IF playlist_results.stats_raises
        THEN Fetched(TRUE, <<>>, Append(asked, StatsCall(page_num, video_ids)))
        ELSE IF \E i \in 1..Len(stats_items) : VideoRaises(stats_items[i])
        THEN Fetched(TRUE, <<>>, asked)
        ELSE IF page_token = 0 THEN Fetched(FALSE, collected, asked)
        ELSE FetchLoopRetries(catalog, page_token, collected, asked)

\* Mutant of FetchLoop: a call that fails ends the loop with the videos
\* collected so far.
RECURSIVE FetchLoopKeepsPartial(_, _, _, _)
FetchLoopKeepsPartial(catalog, page_num, all_videos, log) ==
    LET playlist_results == catalog[page_num]
        items == playlist_results.items
        video_ids == VideoIdsOf(items)
        page_token == playlist_results.nextPageToken
        stats_items == playlist_results.stats
        collected == all_videos \o [i \in 1..Len(stats_items) |-> VideoOf(stats_items[i])]
        listed == Append(log, ListCall(page_num))
        asked == Append(listed, StatsCall(page_num, video_ids))
    IN  IF playlist_results.raises THEN Fetched(FALSE, all_videos, listed)
        ELSE IF Len(items) = 0 THEN Fetched(FALSE, all_videos, listed)
        ELSE IF Len(video_ids) = 0
        THEN IF page_token = 0 THEN Fetched(FALSE, all_videos, listed)
             ELSE FetchLoopKeepsPartial(catalog, page_token, all_videos, listed)
        ELSE IF playlist_results.stats_raises THEN Fetched(FALSE, all_videos, asked)
        ELSE IF \E i \in 1..Len(stats_items) : VideoRaises(stats_items[i])
        THEN Fetched(FALSE, all_videos, asked)
        ELSE IF page_token = 0 THEN Fetched(FALSE, collected, asked)
        ELSE FetchLoopKeepsPartial(catalog, page_token, collected, asked)

\* The while loop of fetch_all_videos from the page the token stands for
\* (page 1 for the first request), with all_videos collected so far and the
\* requests made so far.
RECURSIVE FetchLoop(_, _, _, _)
FetchLoop(catalog, page_num, all_videos, log) ==
    LET playlist_results == catalog[page_num]
        items == playlist_results.items
        video_ids == VideoIdsOf(items)
        page_token == playlist_results.nextPageToken
        stats_items == playlist_results.stats
        collected == all_videos \o [i \in 1..Len(stats_items) |-> VideoOf(stats_items[i])]
        listed == Append(log, ListCall(page_num))
        asked == Append(listed, StatsCall(page_num, video_ids))
    IN  IF playlist_results.raises THEN Fetched(TRUE, <<>>, listed)
        ELSE IF Len(items) = 0 THEN Fetched(FALSE, all_videos, listed)
        ELSE IF Len(video_ids) = 0
        THEN IF page_token = 0 THEN Fetched(FALSE, all_videos, listed)
             ELSE FetchLoop(catalog, page_token, all_videos, listed)
        ELSE IF playlist_results.stats_raises THEN Fetched(TRUE, <<>>, asked)
        ELSE IF \E i \in 1..Len(stats_items) : VideoRaises(stats_items[i])
        THEN Fetched(TRUE, <<>>, asked)
        ELSE IF page_token = 0 THEN Fetched(FALSE, collected, asked)
        ELSE FetchLoop(catalog, page_token, collected, asked)

fetch_all_videos(catalog) == FetchLoop(catalog, 1, <<>>, <<>>)

\* -------------------------------------------------------------- the clock
\* The lock-held part of update(): between a granted acquire and the release.
HeldPcs == {"fetch", "save", "meta", "release"}

\* A cycle is still in its lock-held part although its table lock has expired.
Overdue ==
    \E p \in Procs : /\ dialect = "sqlite"
                     /\ pc[p] \in HeldPcs
                     /\ now > acq_now[p] + LockTtl

Track == overrun' = (overrun \/ Overdue')

Tick ==
    /\ now < MaxTime
    /\ now' = now + 1
    /\ UNCHANGED <<dialect, host, stor, locals, last, updates>>
    /\ Track
    /\ UNCHANGED sched

\* ------------------------------------------------------------ update()
\* Mutant of UpdateExcept: no except clause, the exception reaches the caller.
UpdateReraise == "raised"

\* except Exception as exc: print, traceback.print_exc()
UpdateExcept == "logged"

\* How update() ends when an exception reaches (or does not reach) its
\* outer try block.
Outcome(raised) == IF raised THEN UpdateExcept ELSE "ok"

Bump(c, what) == [c EXCEPT ![what] = @ + 1]

\* update() returns: its local variables are gone. c: the collaborator calls
\* the call made.
Return(p, how, c) ==
    /\ pc' = [pc EXCEPT ![p] = "idle"]
    /\ last' = [proc |-> p, how |-> how, held |-> lock_handle[p] # NoHandle,
                fetch |-> c.fetch, release |-> c.release]
    /\ lock_handle' = [lock_handle EXCEPT ![p] = NoHandle]
    /\ acq_now' = [acq_now EXCEPT ![p] = 0]
    /\ fetched' = [fetched EXCEPT ![p] = <<>>]
    /\ timestamp' = [timestamp EXCEPT ![p] = 0]
    /\ idx' = [idx EXCEPT ![p] = 0]
    /\ exc' = [exc EXCEPT ![p] = FALSE]
    /\ calls' = [calls EXCEPT ![p] = NoCalls]

\* A trigger (cron loop, scheduler callback, manual request) calls update(),
\* which calls acquire_update_lock; the table backend computes owner, now
\* and expires before its transaction begins.
Start(p) ==
    /\ pc[p] = "idle"
    /\ updates < MaxUpdates
    /\ updates' = updates + 1
    /\ pc' = [pc EXCEPT ![p] = "acquire"]
    /\ acq_now' = [acq_now EXCEPT ![p] = IF dialect = "sqlite" THEN now ELSE 0]
    /\ UNCHANGED <<now, dialect, host, stor, lock_handle, fetched, timestamp, idx, exc,
                   calls, last>>
    /\ Track
    /\ UNCHANGED sched

\* Mutant of AcquireAdvisory: the connection of a denied attempt stays open.
AcquireAdvisoryLeak(p) ==
    /\ pc[p] = "acquire"
    /\ dialect = "postgresql"
    /\ IF advisory = {}
       THEN /\ advisory' = {p}
            /\ conns' = conns \cup {p}
            /\ lock_handle' = [lock_handle EXCEPT ![p] = [kind |-> "conn", owner |-> ""]]
            /\ pc' = [pc EXCEPT ![p] = "fetch"]
            /\ UNCHANGED <<acq_now, fetched, timestamp, idx, exc, calls, last>>
       ELSE /\ conns' = conns \cup {p}
            /\ UNCHANGED advisory
            /\ Return(p, "skipped", calls[p])
    /\ UNCHANGED <<now, dialect, host, locks, videos, history, history_id, metadata,
                   updates>>
    /\ Track
    /\ UNCHANGED sched

\* acquire_update_lock, native advisory backend: connect, pg_try_advisory_lock,
\* and update()'s test of the handle.
AcquireAdvisory(p) ==
    /\ pc[p] = "acquire"
    /\ dialect = "postgresql"
    /\ IF advisory = {}
       THEN /\ advisory' = {p}
            /\ conns' = conns \cup {p}
            /\ lock_handle' = [lock_handle EXCEPT ![p] = [kind |-> "conn", owner |-> ""]]
            /\ pc' = [pc EXCEPT ![p] = "fetch"]
            /\ UNCHANGED <<acq_now, fetched, timestamp, idx, exc, calls, last>>
       ELSE /\ UNCHANGED <<advisory, conns>>
            /\ Return(p, "skipped", calls[p])
    /\ UNCHANGED <<now, dialect, host, locks, videos, history, history_id, metadata,
                   updates>>
    /\ Track
    /\ UNCHANGED sched

\* acquire_update_lock, table backend: the transaction, and update()'s test
\* of the handle.
AcquireTxn(p) ==
    /\ pc[p] = "acquire"
    /\ dialect = "sqlite"
    /\ LET r == AcquireTable(locks, host[p], acq_now[p], LockTtl)
       IN  /\ locks' = r.rows
           /\ IF r.handle = NoHandle
              THEN Return(p, "skipped", calls[p])
              ELSE /\ lock_handle' = [lock_handle EXCEPT ![p] = r.handle]
                   /\ pc' = [pc EXCEPT ![p] = "fetch"]
                   /\ UNCHANGED <<acq_now, fetched, timestamp, idx, exc, calls, last>>
    /\ UNCHANGED <<now, dialect, host, advisory, conns, videos, history, history_id,
                   metadata, updates>>
    /\ Track
    /\ UNCHANGED sched

\* acquire_update_lock raises (a storage failure): the connection is closed,
\* the transaction rolled back, and update()'s except clause takes over.
AcquireRaises(p) ==
    /\ pc[p] = "acquire"
    /\ Return(p, Outcome(TRUE), calls[p])
    /\ UNCHANGED <<now, dialect, host, stor, updates>>
    /\ Track
    /\ UNCHANGED sched

\* The transaction of save_video: the storage states it may commit.
save_video(vids, hist, hid, video_id, title, view_count, ts, published_at) ==
    LET inserted == InsertHistory(hist, hid + 1, video_id, ts, view_count)
    IN  {[videos |-> UpsertVideo(vids, video_id, title, view_count, ts, published_at),
          history |-> DeleteHistory(inserted, ids),
          history_id |-> hid + 1] : ids \in PruneChoices(inserted, video_id)}

\* videos = self.fetch_all_videos(), against one of the given catalogs; when
\* it returns, update_historical_data starts: timestamp = int(time.time()).
FetchFrom(p, catalogs) ==
    /\ pc[p] = "fetch"
    /\ \E catalog \in catalogs :
         LET r == fetch_all_videos(catalog)
         IN  IF r.raised
             THEN /\ exc' = [exc EXCEPT ![p] = TRUE]
                  /\ pc' = [pc EXCEPT ![p] = "release"]
                  /\ UNCHANGED <<fetched, timestamp, idx>>
             ELSE /\ fetched' = [fetched EXCEPT ![p] = r.videos]
                  /\ timestamp' = [timestamp EXCEPT ![p] = now]
                  /\ idx' = [idx EXCEPT ![p] = 1]
                  /\ pc' = [pc EXCEPT ![p] = "save"]
                  /\ UNCHANGED exc
    /\ calls' = [calls EXCEPT ![p] = Bump(@, "fetch")]
    /\ UNCHANGED <<now, dialect, host, stor, lock_handle, acq_now, last, updates>>
    /\ Track
    /\ UNCHANGED sched

\* The fetch of a cycle that may run beside other cycles.
Fetch(p) == FetchFrom(p, Catalogs)

\* The fetch of the only trigger of a deployment, against any catalog.
FetchAny(p) == FetchFrom(p, AllCatalogs)

\* The same, the catalogs of three pages and of malformed items included.
FetchPaged(p) == FetchFrom(p, IngestCatalogs)

\* Mutant of SaveVideo: the timestamp is read from the clock for every item.
SaveVideoOwnClock(p) ==
    /\ pc[p] = "save"
    /\ idx[p] <= Len(fetched[p])
    /\ LET video == fetched[p][idx[p]]
       IN  \E db \in save_video(videos, history, history_id, video.videoId,
                                video.title, video.viewCount, now,
                                video.publishedAt) :
              /\ videos' = db.videos
              /\ history' = db.history
              /\ history_id' = db.history_id
    /\ idx' = [idx EXCEPT ![p] = @ + 1]
    /\ UNCHANGED <<now, dialect, host, locks, advisory, conns, metadata, pc, lock_handle,
                   acq_now, fetched, timestamp, exc, calls, last, updates>>
    /\ Track
    /\ UNCHANGED sched

\* update_historical_data: one iteration of the loop, self.db.save_video(...)
SaveVideo(p) ==
    /\ pc[p] = "save"
    /\ idx[p] <= Len(fetched[p])
    /\ LET video == fetched[p][idx[p]]
       IN  \E db \in save_video(videos, history, history_id, video.videoId,
                                video.title, video.viewCount, timestamp[p],
                                video.publishedAt) :
              /\ videos' = db.videos
              /\ history' = db.history
              /\ history_id' = db.history_id
    /\ idx' = [idx EXCEPT ![p] = @ + 1]
    /\ UNCHANGED <<now, dialect, host, locks, advisory, conns, metadata, pc, lock_handle,
                   acq_now, fetched, timestamp, exc, calls, last, updates>>
    /\ Track
    /\ UNCHANGED sched

\* Mutant of SetLastUpdate: the write comes before the last item is saved.
SetLastUpdateEarly(p) ==
    /\ pc[p] = "save"
    /\ idx[p] >= Len(fetched[p])
    /\ metadata' = UpsertMetadata(metadata, "lastUpdate", str(timestamp[p]))
    /\ pc' = [pc EXCEPT ![p] = "meta"]
    /\ UNCHANGED <<now, dialect, host, locks, advisory, conns, videos, history, history_id,
                   lock_handle, acq_now, fetched, timestamp, idx, exc, calls, last,
                   updates>>
    /\ Track
    /\ UNCHANGED sched

\* update_historical_data: self.db.set_metadata("lastUpdate", str(timestamp))
SetLastUpdate(p) ==
    /\ pc[p] = "save"
    /\ idx[p] > Len(fetched[p])
    /\ metadata' = UpsertMetadata(metadata, "lastUpdate", str(timestamp[p]))
    /\ pc' = [pc EXCEPT ![p] = "meta"]
    /\ UNCHANGED <<now, dialect, host, locks, advisory, conns, videos, history, history_id,
                   lock_handle, acq_now, fetched, timestamp, idx, exc, calls, last,
                   updates>>
    /\ Track
    /\ UNCHANGED sched

\* update_historical_data: self.db.set_metadata("totalVideos", str(len(videos)))
SetTotalVideos(p) ==
    /\ pc[p] = "meta"
    /\ metadata' = UpsertMetadata(metadata, "totalVideos", str(Len(fetched[p])))
    /\ pc' = [pc EXCEPT ![p] = "release"]
    /\ UNCHANGED <<now, dialect, host, locks, advisory, conns, videos, history, history_id,
                   lock_handle, acq_now, fetched, timestamp, idx, exc, calls, last,
                   updates>>
    /\ Track
    /\ UNCHANGED sched

\* Mutant of PersistRaises: no finally clause, the exception skips the release.
PersistRaisesNoFinally(p) ==
    /\ pc[p] \in {"save", "meta"}
    /\ Return(p, Outcome(TRUE), calls[p])
    /\ UNCHANGED <<now, dialect, host, stor, updates>>
    /\ Track
    /\ UNCHANGED sched

\* A storage call of update_historical_data raises: its transaction is rolled
\* back and the exception leaves the inner try block through finally.
PersistRaises(p) ==
    /\ pc[p] \in {"save", "meta"}
    /\ exc' = [exc EXCEPT ![p] = TRUE]
    /\ pc' = [pc EXCEPT ![p] = "release"]
    /\ UNCHANGED <<now, dialect, host, stor, lock_handle, acq_now, fetched, timestamp,
                   idx, calls, last, updates>>
    /\ Track
    /\ UNCHANGED sched

\* finally: self.db.release_update_lock(lock_handle), then update() returns.
Release(p) ==
    /\ pc[p] = "release"
    /\ IF dialect = "postgresql"
       THEN /\ advisory' = advisory \ {p}
            /\ conns' = conns \ {p}
            /\ UNCHANGED locks
       ELSE /\ locks' = ReleaseTable(locks, lock_handle[p])
            /\ UNCHANGED <<advisory, conns>>
    /\ Return(p, Outcome(exc[p]), Bump(calls[p], "release"))
    /\ UNCHANGED <<now, dialect, host, videos, history, history_id, metadata, updates>>
    /\ Track
    /\ UNCHANGED sched

\* release_update_lock raises (a storage failure): the table row stays; on
\* the advisory backend the connection is closed in finally, which ends the
\* session and with it the lock.
ReleaseRaises(p) ==
    /\ pc[p] = "release"
    /\ advisory' = advisory \ {p}
    /\ conns' = conns \ {p}
    /\ Return(p, Outcome(TRUE), Bump(calls[p], "release"))
    /\ UNCHANGED <<now, dialect, host, locks, videos, history, history_id, metadata,
                   updates>>
    /\ Track
    /\ UNCHANGED sched

\* The process running the cycle dies inside the lock-held part: nothing is
\* released and its memory is gone; the server drops the dead process's
\* connection. acq_now keeps the clock reading its lock row was written with.
Crash(p) ==
    /\ pc[p] \in HeldPcs
    /\ pc' = [pc EXCEPT ![p] = "crashed"]
    /\ advisory' = advisory \ {p}
    /\ conns' = conns \ {p}
    /\ fetched' = [fetched EXCEPT ![p] = <<>>]
    /\ timestamp' = [timestamp EXCEPT ![p] = 0]
    /\ idx' = [idx EXCEPT ![p] = 0]
    /\ exc' = [exc EXCEPT ![p] = FALSE]
    /\ calls' = [calls EXCEPT ![p] = NoCalls]
    /\ UNCHANGED <<now, dialect, host, locks, videos, history, history_id, metadata,
                   lock_handle, acq_now, last, updates>>
    /\ Track
    /\ UNCHANGED sched

\* ------------------------------------------------------------ text values
\* A str is the sequence of its characters.
Whitespace == {" ", "\t"}

Digits == <<"0", "1", "2", "3", "4", "5", "6", "7", "8", "9">>

IsDigit(c) == \E d \in 1..10 : Digits[d] = c

DigitValue(c) == (CHOOSE d \in 1..10 : Digits[d] = c) - 1

\* The pieces of s between the characters of seps, empty pieces included.
RECURSIVE Fields(_, _)
Fields(s, seps) ==
    IF \A i \in 1..Len(s) : s[i] \notin seps THEN <<s>>
    ELSE LET i == CHOOSE k \in 1..Len(s) :
                     s[k] \in seps /\ \A j \in 1..(k - 1) : s[j] \notin seps
         IN  <<SubSeq(s, 1, i - 1)>> \o Fields(SubSeq(s, i + 1, Len(s)), seps)

\* str.split(): the runs of characters that are not whitespace
SplitWhitespace(s) == SelectSeq(Fields(s, Whitespace), LAMBDA t : t # <<>>)

\* str.split(sep)
Split(s, sep) == Fields(s, {sep})

\* str.strip()
RECURSIVE Strip(_)
Strip(s) ==
    IF s = <<>> THEN s
    ELSE IF s[1] \in Whitespace THEN Strip(Tail(s))
    ELSE IF s[Len(s)] \in Whitespace THEN Strip(SubSeq(s, 1, Len(s) - 1))
    ELSE s

\* sep.join(parts)
RECURSIVE Join(_, _)
Join(parts, sep) ==
    IF parts = <<>> THEN <<>>
    ELSE IF Len(parts) = 1 THEN parts[1]
    ELSE parts[1] \o sep \o Join(Tail(parts), sep)

\* The value of a run of decimal digits.
RECURSIVE DecimalValue(_)
DecimalValue(s) ==
    IF s = <<>> THEN 0
    ELSE 10 * DecimalValue(SubSeq(s, 1, Len(s) - 1)) + DigitValue(s[Len(s)])

\* int(text): surrounding whitespace is ignored, a sign may lead, and
\* anything else than decimal digits raises ValueError.
ParseInt(text) ==
    LET t == Strip(text)
        signed == t # <<>> /\ t[1] \in {"+", "-"}
        body == IF signed THEN Tail(t) ELSE t
    IN  IF body = <<>> \/ \E i \in 1..Len(body) : ~IsDigit(body[i])
        THEN [raised |-> TRUE, value |-> 0]
        ELSE [raised |-> FALSE,
              value |-> IF signed /\ t[1] = "-" THEN 0 - DecimalValue(body)
                        ELSE DecimalValue(body)]

\* ------------------------------------------------------ local time
\* Instants are seconds since the epoch; a naive datetime is the number of
\* seconds its wall-clock reading is after 1970-01-01 00:00:00.
Minute == 60

Hour == 3600

Day == 86400

\* The instant at which the zones with a daylight-saving rule move their clocks.
Transition == Day + 2 * Hour

\* A zone: the UTC offset of local time before and from an instant on.
ZoneUTC == [at |-> 0, before |-> 0, after |-> 0]

ZoneSpring == [at |-> Transition, before |-> 0, after |-> Hour]

ZoneFall == [at |-> Transition, before |-> Hour, after |-> 0]

Zones == {ZoneUTC, ZoneSpring, ZoneFall}

UtcOffset(z, u) == IF u < z.at THEN z.before ELSE z.after

\* datetime.fromtimestamp(u), and datetime.now() at instant u
Local(z, u) == u + UtcOffset(z, u)

\* naive_datetime.timestamp(): the instant whose local reading is t (the
\* earlier one when there are two; for a reading the clocks skip, the reading
\* is taken with the offset in force before the change).
Timestamp(z, t) ==
    LET a == Local(z, t) - t
        u1 == t - a
        t1 == Local(z, u1)
        b == IF t1 = t THEN Local(z, u1 - Day) - (u1 - Day) ELSE t1 - u1
        u2 == t - b
        t2 == Local(z, u2)
    IN  IF t1 = t /\ a = b THEN u1
        ELSE IF t2 = t THEN u2
        ELSE IF t1 = t THEN u1
        ELSE IF u1 > u2 THEN u1 ELSE u2

\* now.replace(hour=0, minute=0, second=0)
DayStart(t) == t - (t % Day)

Min(S) == CHOOSE x \in S : \A y \in S : x <= y

\* ------------------------------------------------------ schedule calculator
\* Optional[str]
None == [none |-> TRUE, text |-> <<>>]

Some(text) == [none |-> FALSE, text |-> text]

\* Mutant of normalize_cron_expression: six fields are kept as they are.
NormalizeKeepSix(expr) ==
    LET parts == SplitWhitespace(expr)
    IN  IF Len(parts) < 3 THEN None
        ELSE IF Len(parts) = 3 THEN Some(Join(parts \o <<<<"*">>, <<"*">>>>, <<" ">>))
        ELSE IF Len(parts) = 4 THEN Some(Join(parts \o <<<<"*">>>>, <<" ">>))
        ELSE IF Len(parts) \in {5, 6} THEN Some(Join(parts, <<" ">>))
        ELSE None

normalize_cron_expression(expr) ==
    LET parts == SplitWhitespace(expr)
    IN  IF Len(parts) < 3 THEN None
        ELSE IF Len(parts) = 3 THEN Some(Join(parts \o <<<<"*">>, <<"*">>>>, <<" ">>))
        ELSE IF Len(parts) = 4 THEN Some(Join(parts \o <<<<"*">>>>, <<" ">>))
        ELSE IF Len(parts) \in {5, 6} THEN Some(Join(SubSeq(parts, 1, 5), <<" ">>))
        ELSE None

\* The cron library, for expressions of five fields whose month and
\* day-of-week fields are "*": the values a field matches in lo..hi ("*", a
\* number, or "*/n"), none when the field is malformed or out of range.
CronFieldValues(field, lo, hi) ==
    LET n == ParseInt(field)
        step == IF Len(field) > 2 /\ SubSeq(field, 1, 2) = <<"*", "/">>
                THEN ParseInt(SubSeq(field, 3, Len(field)))
                ELSE [raised |-> TRUE, value |-> 0]
    IN  IF field = <<"*">> THEN lo..hi
        ELSE IF ~step.raised /\ step.value >= 1
        THEN {v \in lo..hi : (v - lo) % step.value = 0}
        ELSE IF ~n.raised /\ field[1] \notin {"+", "-"} /\ n.value \in lo..hi
        THEN {n.value}
        ELSE {}

\* The lengths of the months of 1970, the year the instants lie in.
MonthLengths == <<31, 28, 31, 30, 31, 30, 31, 31, 30, 31, 30, 31>>

\* The day of the month of the day that starts d days after 1970-01-01.
RECURSIVE DayOfMonthFrom(_, _)
DayOfMonthFrom(d, month) ==
    IF d < MonthLengths[month] THEN d + 1
    ELSE DayOfMonthFrom(d - MonthLengths[month], month + 1)

DayOfMonth(d) == DayOfMonthFrom(d, 1)

\* How far ahead the cron library is followed: two months.
CronHorizon == 62

\* croniter(expr, t).get_next(datetime) for a naive datetime t: the first
\* wall-clock reading strictly after t that matches the fields, or raises.
croniter_get_next(expr, t) ==
    LET fields == SplitWhitespace(expr)
        minutes == CronFieldValues(fields[1], 0, 59)
        hours == CronFieldValues(fields[2], 0, 23)
        days == CronFieldValues(fields[3], 1, 31)
        months == CronFieldValues(fields[4], 1, 12)
        weekdays == CronFieldValues(fields[5], 0, 7)
        today == t \div Day
        fires(d) == {d * Day + h * Hour + m * Minute : h \in hours, m \in minutes}
        later == IF DayOfMonth(today) \in days THEN {x \in fires(today) : x > t} ELSE {}
        next_day == Min({d \in (today + 1)..(today + CronHorizon) : DayOfMonth(d) \in days})
    IN  IF Len(fields) # 5 \/ {} \in {minutes, hours, days, months, weekdays}
        THEN [raised |-> TRUE, value |-> 0]
        ELSE IF later # {} THEN [raised |-> FALSE, value |-> Min(later)]
        ELSE [raised |-> FALSE, value |-> Min(fires(next_day))]

\* Mutant of ScheduleCandidate: a time that has passed today is not moved to
\* the next day.
ScheduleCandidateToday(entry, t) ==
    LET parts == Split(entry, ":")
        hour == ParseInt(parts[1])
        minute == ParseInt(parts[2])
    IN  IF Len(parts) # 2 THEN [raised |-> TRUE, value |-> 0]
        ELSE IF hour.raised \/ minute.raised THEN [raised |-> TRUE, value |-> 0]
        ELSE IF hour.value \notin 0..23 \/ minute.value \notin 0..59
        THEN [raised |-> TRUE, value |-> 0]
        ELSE [raised |-> FALSE,
              value |-> DayStart(t) + hour.value * Hour + minute.value * Minute]

\* Mutant of ScheduleCandidate: a time equal to now is kept for today.
ScheduleCandidateOnOrAfter(entry, t) ==
    LET parts == Split(entry, ":")
        hour == ParseInt(parts[1])
        minute == ParseInt(parts[2])
        candidate == DayStart(t) + hour.value * Hour + minute.value * Minute
    IN  IF Len(parts) # 2 THEN [raised |-> TRUE, value |-> 0]
        ELSE IF hour.raised \/ minute.raised THEN [raised |-> TRUE, value |-> 0]
        ELSE IF hour.value \notin 0..23 \/ minute.value \notin 0..59
        THEN [raised |-> TRUE, value |-> 0]
        ELSE [raised |-> FALSE,
              value |-> IF candidate < t THEN candidate + Day ELSE candidate]

\* _parse_update_schedule, the body of its try block for one entry: the
\* candidate it yields, or the exception it raises (entry.split(":") not of
\* two parts, int() of a part, a value replace() rejects).
ScheduleCandidate(entry, t) ==
    LET parts == Split(entry, ":")
        hour == ParseInt(parts[1])
        minute == ParseInt(parts[2])
        candidate == DayStart(t) + hour.value * Hour + minute.value * Minute
    IN  IF Len(parts) # 2 THEN [raised |-> TRUE, value |-> 0]
        ELSE IF hour.raised \/ minute.raised THEN [raised |-> TRUE, value |-> 0]
        ELSE IF hour.value \notin 0..23 \/ minute.value \notin 0..59
        THEN [raised |-> TRUE, value |-> 0]
        ELSE [raised |-> FALSE,
              value |-> IF candidate <= t THEN candidate + Day ELSE candidate]

\* Mutant of parse_update_schedule: an entry that raises ends the generator.
ParseScheduleUntilBad(schedule_str, t) ==
    LET tokens == Split(schedule_str, ",")
        times == SelectSeq([i \in 1..Len(tokens) |-> Strip(tokens[i])],
                           LAMBDA e : e # <<>>)
        bad == {i \in 1..Len(times) : ScheduleCandidate(times[i], t).raised}
        good == IF bad = {} THEN times ELSE SubSeq(times, 1, Min(bad) - 1)
    IN  [i \in 1..Len(good) |-> ScheduleCandidate(good[i], t).value]

\* _parse_update_schedule(schedule_str, now): the candidates it yields
parse_update_schedule(schedule_str, t) ==
    LET tokens == Split(schedule_str, ",")
        times == SelectSeq([i \in 1..Len(tokens) |-> Strip(tokens[i])],
                           LAMBDA e : e # <<>>)
        good == SelectSeq(times, LAMBDA e : ~ScheduleCandidate(e, t).raised)
    IN  [i \in 1..Len(good) |-> ScheduleCandidate(good[i], t).value]

\* Mutant of IntervalBase: the base is the last update also when none is
\* recorded.
IntervalBaseNoFallback(z, ts, t) == Local(z, ts)

\* base_dt = datetime.fromtimestamp(last_update_ts) if last_update_ts else reference
IntervalBase(z, ts, t) == IF ts # 0 THEN Local(z, ts) ELSE t

\* Mutant of compute_next_update_timestamp: the fixed times come before cron.
ComputeScheduleFirst(s, ts, t, z) ==
    LET cron_expr == IF s.update_cron # <<>> THEN normalize_cron_expression(s.update_cron)
                     ELSE None
        cron == IF cron_expr.none THEN [raised |-> TRUE, value |-> 0]
                ELSE croniter_get_next(cron_expr.text, t)
        schedule_candidates == parse_update_schedule(s.update_schedule, t)
    IN  IF schedule_candidates # <<>>
        THEN [branch |-> "schedule",
              value |-> Timestamp(z, Min(SeqToSet(schedule_candidates)))]
        ELSE IF ~cron.raised
        THEN [branch |-> "cron", value |-> Timestamp(z, cron.value)]
        ELSE [branch |-> "interval",
              value |-> Timestamp(z, IntervalBase(z, ts, t) + s.update_interval_hours * Hour)]

\* compute_next_update_timestamp(settings, last_update_ts, now) in zone z,
\* with the strategy that produced the value.
compute_next_update_timestamp(s, ts, t, z) ==
    LET cron_expr == IF s.update_cron # <<>> THEN normalize_cron_expression(s.update_cron)
                     ELSE None
        cron == IF cron_expr.none THEN [raised |-> TRUE, value |-> 0]
                ELSE croniter_get_next(cron_expr.text, t)
        schedule_candidates == parse_update_schedule(s.update_schedule, t)
    IN  IF ~cron.raised
        THEN [branch |-> "cron", value |-> Timestamp(z, cron.value)]
        ELSE IF schedule_candidates # <<>>
        THEN [branch |-> "schedule",
              value |-> Timestamp(z, Min(SeqToSet(schedule_candidates)))]
        ELSE [branch |-> "interval",
              value |-> Timestamp(z, IntervalBase(z, ts, t) + s.update_interval_hours * Hour)]

NoResult == [branch |-> "none", value |-> 0]

\* No tracker.update() call of the loop yet.
NotFired == [target |-> 0, at |-> 0, done |-> 0]

\* No timer thread was started.
LoopIdle ==
    /\ loop_pc = "none"
    /\ base = 0
    /\ next_dt = 0
    /\ clock = 0
    /\ fired = NotFired
    /\ loop_fires = 0

\* The calculator is not in use.
SchedIdle ==
    /\ settings = [update_cron |-> <<>>, update_schedule |-> <<>>,
                   update_interval_hours |-> 6]
    /\ zone = ZoneUTC
    /\ last_update_ts = 0
    /\ reference = 0
    /\ next_update = NoResult
    /\ LoopIdle
    /\ store_calls = <<>>
    /\ jobs = <<>>

\* ------------------------------------------------------- the specification
Init ==
    /\ now = 1
    /\ dialect \in Dialects
    /\ host \in {h \in [Procs -> Hosts] : h["p1"] = "h1"}
    /\ locks = {}
    /\ advisory = {}
    /\ conns = {}
    /\ videos = {}
    /\ history = <<>>
    /\ history_id = 0
    /\ metadata = <<>>
    /\ pc = [p \in Procs |-> "idle"]
    /\ lock_handle = [p \in Procs |-> NoHandle]
    /\ acq_now = [p \in Procs |-> 0]
    /\ fetched = [p \in Procs |-> <<>>]
    /\ timestamp = [p \in Procs |-> 0]
    /\ idx = [p \in Procs |-> 0]
    /\ exc = [p \in Procs |-> FALSE]
    /\ calls = [p \in Procs |-> NoCalls]
    /\ last = [proc |-> "", how |-> "none", held |-> FALSE, fetch |-> 0, release |-> 0]
    /\ updates = 0
    /\ overrun = FALSE
    /\ SchedIdle

Next ==
    \/ Tick
    \/ \E p \in Procs : Start(p)
    \/ \E p \in Procs : AcquireAdvisory(p)
    \/ \E p \in Procs : AcquireTxn(p)
    \/ \E p \in Procs : AcquireRaises(p)
    \/ \E p \in Procs : Fetch(p)
    \/ \E p \in Procs : SaveVideo(p)
    \/ \E p \in Procs : SetLastUpdate(p)
    \/ \E p \in Procs : SetTotalVideos(p)
    \/ \E p \in Procs : PersistRaises(p)
    \/ \E p \in Procs : Release(p)
    \/ \E p \in Procs : ReleaseRaises(p)
    \/ \E p \in Procs : Crash(p)

Spec == Init /\ [][Next]_vars

\* A deployment with a single trigger: update() is only ever called by the
\* cron loop of one instance, so that no two calls overlap.
Solo == "p1"

NextSolo ==
    \/ Tick
    \/ Start(Solo)
    \/ AcquireAdvisory(Solo)
    \/ AcquireTxn(Solo)
    \/ AcquireRaises(Solo)
    \/ FetchAny(Solo)
    \/ SaveVideo(Solo)
    \/ SetLastUpdate(Solo)
    \/ SetTotalVideos(Solo)
    \/ PersistRaises(Solo)
    \/ Release(Solo)
    \/ ReleaseRaises(Solo)
    \/ Crash(Solo)

SpecSolo == Init /\ [][NextSolo]_vars

\* The single trigger against the catalogs of one page. The thread that
\* called update() keeps running: a step of the call that can be taken is
\* taken.
CycleStep(p) ==
    \/ AcquireAdvisory(p) \/ AcquireTxn(p) \/ AcquireRaises(p)
    \/ Fetch(p) \/ SaveVideo(p) \/ SetLastUpdate(p) \/ SetTotalVideos(p)
    \/ PersistRaises(p) \/ Release(p) \/ ReleaseRaises(p)

NextSoloFair ==
    \/ Tick
    \/ Start(Solo)
    \/ CycleStep(Solo)
    \/ Crash(Solo)

SpecSoloFair == Init /\ [][NextSoloFair]_vars /\ WF_vars(CycleStep(Solo))

\* The first cycle of the single trigger.
StartOnce == updates = 0 /\ Start(Solo)

\* ------------------------------------------------- the add-video request
\* The add-video requests a run answers.
MaxAdds == 1

\* What get_video_statistics([video_id]) comes to for the request: it raises,
\* or answers with no item, with an item, or with an item that has no title.
AddResponses ==
    {[raises |-> TRUE, items |-> <<>>],
     [raises |-> FALSE, items |-> <<>>],
     [raises |-> FALSE, items |-> <<Stat("v1", "Added", <<5>>, "d")>>],
     [raises |-> FALSE, items |-> <<BareStat("v1")>>]}

\* The statements of the request between items[0] and save_video raise:
\* item["snippet"]["title"] without a title, int() of a text that is no number.
AddRaises(item) ==
    \/ "title" \notin DOMAIN item.snippet
    \/ IntRaises(Get(item.statistics, "viewCount", <<0>>))

\* POST /api/add-video/<video_id>: the statistics of the one item are asked
\* for and, when an item came back, saved with the clock's reading. The
\* request takes no lock. The response status is kept in store_calls.
api_add_specific_video ==
    /\ Len(store_calls) < MaxAdds
    /\ \E stats \in AddResponses :
          LET items == stats.items
              item == items[1]
              status == IF stats.raises THEN 500
                        ELSE IF items = <<>> THEN 404
                        ELSE IF AddRaises(item) THEN 500
                        ELSE 200
          IN  /\ IF status = 200
                 THEN \E db \in save_video(videos, history, history_id, item.id,
                                          item.snippet.title,
                                          int(Get(item.statistics, "viewCount", <<0>>)),
                                          now, Get(item.snippet, "publishedAt", "")) :
                         /\ videos' = db.videos
                         /\ history' = db.history
                         /\ history_id' = db.history_id
                 ELSE UNCHANGED <<videos, history, history_id>>
              /\ store_calls' = Append(store_calls,
                                       [op |-> "add_video", key |-> "v1", value |-> status])
    /\ UNCHANGED <<now, dialect, host, locks, advisory, conns, metadata, locals, last,
                   updates, overrun,
                   settings, zone, last_update_ts, reference, next_update, cronloop, jobs>>

\* The single trigger and the web application's add-video route.
NextWeb ==
    \/ Tick
    \/ StartOnce
    \/ CycleStep(Solo)
    \/ Crash(Solo)
    \/ api_add_specific_video

SpecWeb == Init /\ [][NextWeb]_vars

\* ------------------------------------------------ the ingestor in a cycle
\* The first cycle of the single trigger, followed through a fetch of a
\* catalog of up to three pages.
NextIngest ==
    \/ Tick
    \/ StartOnce
    \/ AcquireAdvisory(Solo)
    \/ AcquireTxn(Solo)
    \/ AcquireRaises(Solo)
    \/ FetchPaged(Solo)
    \/ SaveVideo(Solo)
    \/ SetLastUpdate(Solo)
    \/ SetTotalVideos(Solo)
    \/ PersistRaises(Solo)
    \/ Release(Solo)
    \/ ReleaseRaises(Solo)
    \/ Crash(Solo)

SpecIngest == Init /\ [][NextIngest]_vars

\* ------------------------------------------- the history store on its own
\* save_video is called by update_historical_data and by the add-video
\* request, with the timestamp its caller captured. The storage is taken up
\* when one item already has HistoryLimit - 1 entries, written by as many
\* earlier saves: with rising timestamps, with the two oldest entries written
\* at one instant, or with the entry written last carrying the oldest
\* timestamp (its caller captured it before the others).
MaxSaves == 2

PrefillAscending == [i \in 1..(HistoryLimit - 1) |-> i + 1]

PrefillTied == [i \in 1..(HistoryLimit - 1) |-> IF i <= 2 THEN 2 ELSE i]

PrefillLate == [i \in 1..(HistoryLimit - 1) |-> IF i = HistoryLimit - 1 THEN 2 ELSE i + 2]

Prefills == {PrefillAscending, PrefillTied, PrefillLate}

\* The timestamps a caller passes: older than every entry, that of the oldest
\* entries, and later than every entry.
Stamps == {1, 2, HistoryLimit + 1}

InitHistory ==
    /\ now = 1
    /\ dialect \in Dialects
    /\ host = [p \in Procs |-> "h1"]
    /\ locks = {}
    /\ advisory = {}
    /\ conns = {}
    /\ \E f \in Prefills :
          /\ history = [i \in 1..(HistoryLimit - 1) |->
                           [id |-> i, video_id |-> "v1", timestamp |-> f[i],
                            view_count |-> i]]
          /\ videos = {[video_id |-> "v1", title |-> "T1",
                        current_views |-> HistoryLimit - 1,
                        last_updated |-> f[HistoryLimit - 1],
                        published_at |-> "2020-01-01"]}
    /\ history_id = HistoryLimit - 1
    /\ metadata = <<>>
    /\ pc = [p \in Procs |-> "idle"]
    /\ lock_handle = [p \in Procs |-> NoHandle]
    /\ acq_now = [p \in Procs |-> 0]
    /\ fetched = [p \in Procs |-> <<>>]
    /\ timestamp = [p \in Procs |-> 0]
    /\ idx = [p \in Procs |-> 0]
    /\ exc = [p \in Procs |-> FALSE]
    /\ calls = [p \in Procs |-> NoCalls]
    /\ last = [proc |-> "", how |-> "none", held |-> FALSE, fetch |-> 0, release |-> 0]
    /\ updates = 0
    /\ overrun = FALSE
    /\ SchedIdle

\* One call of Database.save_video(video_id, title, view_count, timestamp,
\* published_at): its transaction commits.
SaveVideoCall ==
    /\ history_id < HistoryLimit - 1 + MaxSaves
    /\ \E video_id \in {"v1", "v2"}, ts \in Stamps :
         \E db \in save_video(videos, history, history_id, video_id, "T",
                              HistoryLimit + history_id, ts, "2020-01-01") :
            /\ videos' = db.videos
            /\ history' = db.history
            /\ history_id' = db.history_id
    /\ UNCHANGED <<now, dialect, host, locks, advisory, conns, metadata, locals, last,
                   updates, overrun, sched>>

NextHistory == SaveVideoCall

SpecHistory == InitHistory /\ [][NextHistory]_vars

\* ------------------------------------------------- the store on its own
\* get_metadata(key): SELECT value FROM metadata WHERE key = :key, the value
\* of the row, or None when there is no row.
get_metadata(md, key) ==
    IF key \in DOMAIN md THEN [none |-> FALSE, text |-> md[key]] ELSE None

\* get_all_metadata(): SELECT key, value FROM metadata, as a dict.
get_all_metadata(md) == [key \in DOMAIN md |-> md[key]]

\* Mutant of OrderByViews: ORDER BY current_views ASC.
OrderByViewsAsc(rows) ==
    LET n == Cardinality(rows)
    IN  {s \in [1..n -> rows] :
            /\ \A i, j \in 1..n : i # j => s[i] # s[j]
            /\ \A i, j \in 1..n : i < j => s[i].current_views <= s[j].current_views}

\* SELECT ... FROM videos ORDER BY current_views DESC: the orders the engine
\* may return the rows in (rows of equal current_views in any order).
OrderByViews(rows) ==
    LET n == Cardinality(rows)
    IN  {s \in [1..n -> rows] :
            /\ \A i, j \in 1..n : i # j => s[i] # s[j]
            /\ \A i, j \in 1..n : i < j => s[i].current_views >= s[j].current_views}

\* LIMIT :limit, for a limit that is not negative
Limit(s, limit) == SubSeq(s, 1, IF limit < Len(s) THEN limit ELSE Len(s))

\* get_top_videos(limit): the lists it may return, the rank of a row being
\* its position in the result.
get_top_videos(rows, limit) ==
    {LET top == Limit(s, limit)
     IN  [idx_ \in 1..Len(top) |->
             [rank |-> idx_,
              videoId |-> top[idx_].video_id,
              title |-> top[idx_].title,
              views |-> top[idx_].current_views,
              publishedAt |-> top[idx_].published_at,
              url |-> <<"https://www.youtube.com/watch?v=", top[idx_].video_id>>]] \o <<>> :
        s \in OrderByViews(rows)}

\* def get_top_videos(self, limit: int = 100)
DefaultLimit == 100

\* The direct calls of one Database object made so far are at most MaxCalls.
MaxCalls == 4

MetaKeys == {"lastUpdate", "totalVideos"}
MetaValues == {str(3), str(12)}
StoreVideos == {"v1", "v2", "v3"}
ViewCounts == {100, 200}
Limits == {0, 1, 2, DefaultLimit}

\* One call of Database.set_metadata(key, value): its transaction commits.
SetMetadataCall ==
    /\ Len(store_calls) < MaxCalls
    /\ \E key \in MetaKeys, value \in MetaValues :
          /\ metadata' = UpsertMetadata(metadata, key, value)
          /\ store_calls' = Append(store_calls,
                                   [op |-> "set_metadata", key |-> key, value |-> value])
    /\ UNCHANGED <<now, dialect, host, locks, advisory, conns, videos, history,
                   history_id, locals, last, updates, overrun,
                   settings, zone, last_update_ts, reference, next_update, cronloop, jobs>>

\* One call of Database.save_video(...) with the clock's reading as timestamp
\* (as the add-video request makes it): its transaction commits.
SaveVideoDirect ==
    /\ Len(store_calls) < MaxCalls
    /\ \E video_id \in StoreVideos, view_count \in ViewCounts :
          /\ \E db \in save_video(videos, history, history_id, video_id, "T",
                                   view_count, now, NULL) :
                /\ videos' = db.videos
                /\ history' = db.history
                /\ history_id' = db.history_id
          /\ store_calls' = Append(store_calls,
                                   [op |-> "save_video", key |-> video_id,
                                    value |-> view_count])
    /\ UNCHANGED <<now, dialect, host, locks, advisory, conns, metadata, locals, last,
                   updates, overrun,
                   settings, zone, last_update_ts, reference, next_update, cronloop, jobs>>

InitStore == Init /\ dialect = "sqlite" /\ host = [p \in Procs |-> "h1"]

NextStore == SetMetadataCall \/ SaveVideoDirect

SpecStore == InitStore /\ [][NextStore]_vars

\* ------------------------------------------- the calculator on its own
\* The cron expressions configured, each with the tokens it consists of and,
\* when it is a valid expression, the minutes, hours and days of the month it
\* fires at.
\* no cron expression
CronEmpty == [text |-> <<>>,
              tokens |-> <<>>,
              valid |-> FALSE, minutes |-> {}, hours |-> {}, days |-> {}]

\* two fields
CronTwo == [text |-> <<"0", " ", "6">>,
            tokens |-> <<<<"0">>, <<"6">>>>,
            valid |-> FALSE, minutes |-> {}, hours |-> {}, days |-> {}]

\* three fields: minute, hour, day of month
CronThree == [text |-> <<"0", " ", "6", " ", "1">>,
              tokens |-> <<<<"0">>, <<"6">>, <<"1">>>>,
              valid |-> TRUE, minutes |-> {0}, hours |-> {6}, days |-> {1}]

\* four fields, separated by runs of blanks and a tab
CronFour == [text |-> <<"3", "0", " ", " ", "6", "\t", "*", " ", "*">>,
             tokens |-> <<<<"3", "0">>, <<"6">>, <<"*">>, <<"*">>>>,
             valid |-> TRUE, minutes |-> {30}, hours |-> {6}, days |-> 1..31]

\* five fields
CronFive == [text |-> <<"0", " ", "6", " ", "*", " ", "*", " ", "*">>,
             tokens |-> <<<<"0">>, <<"6">>, <<"*">>, <<"*">>, <<"*">>>>,
             valid |-> TRUE, minutes |-> {0}, hours |-> {6}, days |-> 1..31]

\* six fields, the last a year
CronSix == [text |-> <<"*", "/", "3", "0", " ", "*", " ", "*", " ", "*", " ", "*", " ", "2", "0", "3", "0">>,
            tokens |-> <<<<"*", "/", "3", "0">>, <<"*">>, <<"*">>, <<"*">>, <<"*">>, <<"2", "0", "3", "0">>>>,
            valid |-> TRUE, minutes |-> {0, 30}, hours |-> 0..23, days |-> 1..31]

\* seven fields
CronSeven == [text |-> <<"0", " ", "6", " ", "*", " ", "*", " ", "*", " ", "*", " ", "*">>,
              tokens |-> <<<<"0">>, <<"6">>, <<"*">>, <<"*">>, <<"*">>, <<"*">>, <<"*">>>>,
              valid |-> FALSE, minutes |-> {}, hours |-> {}, days |-> {}]

\* five fields the cron library rejects (minute 61)
CronBadMinute == [text |-> <<"6", "1", " ", "6", " ", "*", " ", "*", " ", "*">>,
                  tokens |-> <<<<"6", "1">>, <<"6">>, <<"*">>, <<"*">>, <<"*">>>>,
                  valid |-> FALSE, minutes |-> {}, hours |-> {}, days |-> {}]

\* three fields the cron library rejects
CronWords == [text |-> <<"a", " ", "b", " ", "c">>,
              tokens |-> <<<<"a">>, <<"b">>, <<"c">>>>,
              valid |-> FALSE, minutes |-> {}, hours |-> {}, days |-> {}]

CronInputs == {CronEmpty,
               CronTwo,
               CronThree,
               CronFour,
               CronFive,
               CronSix,
               CronSeven,
               CronBadMinute,
               CronWords}

\* The fixed-time lists configured, each with the times of day (hour, minute)
\* its valid HH:MM tokens stand for.
\* no fixed times
ScheduleEmpty == [text |-> <<>>,
                 times |-> {}]

\* two times
ScheduleTwo == [text |-> <<"0", "6", ":", "0", "0", ",", "1", "8", ":", "0", "0">>,
               times |-> {<<6, 0>>, <<18, 0>>}]

\* two times among tokens that are none (hour 25, a word), with blanks
ScheduleMixed == [text |-> <<"1", "8", ":", "0", "5", ",", " ", "2", "5", ":", "0", "0", ",", "x", ",", " ", "6", ":", "3", "0">>,
                 times |-> {<<18, 5>>, <<6, 30>>}]

\* no token is a time
ScheduleBad == [text |-> <<"a", "b", ":", "c", "d", ",", "0", "6", ":", "0", "0", ":", "0", "0", ",", "7">>,
               times |-> {}]

\* one time, early in the day
ScheduleEarly == [text |-> <<"0", "1", ":", "3", "0">>,
                 times |-> {<<1, 30>>}]

ScheduleInputs == {ScheduleEmpty, ScheduleTwo, ScheduleMixed, ScheduleBad, ScheduleEarly}

IntervalHours == {1, 6}

\* The instants compute_next_update_timestamp is called at: half an hour
\* before the zones' clock change, and in the morning and the evening after it.
Instants == {Day + Hour + 30 * Minute, Day + 5 * Hour + 30 * Minute, Day + 19 * Hour}

\* The last-update timestamps: none yet, and an hour before the clock change.
LastUpdates == {0, Day + Hour}

InitSchedule ==
    /\ now = 1
    /\ dialect = "sqlite"
    /\ host = [p \in Procs |-> "h1"]
    /\ locks = {}
    /\ advisory = {}
    /\ conns = {}
    /\ videos = {}
    /\ history = <<>>
    /\ history_id = 0
    /\ metadata = <<>>
    /\ pc = [p \in Procs |-> "idle"]
    /\ lock_handle = [p \in Procs |-> NoHandle]
    /\ acq_now = [p \in Procs |-> 0]
    /\ fetched = [p \in Procs |-> <<>>]
    /\ timestamp = [p \in Procs |-> 0]
    /\ idx = [p \in Procs |-> 0]
    /\ exc = [p \in Procs |-> FALSE]
    /\ calls = [p \in Procs |-> NoCalls]
    /\ last = [proc |-> "", how |-> "none", held |-> FALSE, fetch |-> 0, release |-> 0]
    /\ updates = 0
    /\ overrun = FALSE
    /\ \E c \in CronInputs, f \in ScheduleInputs, h \in IntervalHours :
          settings = [update_cron |-> c.text, update_schedule |-> f.text,
                      update_interval_hours |-> h]
    /\ zone \in Zones
    /\ last_update_ts \in LastUpdates
    /\ reference \in Instants
    /\ next_update = NoResult
    /\ LoopIdle
    /\ store_calls = <<>>
    /\ jobs = <<>>

\* The status request asks for the next update:
\* compute_next_update_timestamp(settings, last_update_ts) with now = datetime.now().
ComputeNext ==
    /\ next_update = NoResult
    /\ next_update' = compute_next_update_timestamp(settings, last_update_ts,
                                                     Local(zone, reference), zone)
    /\ UNCHANGED <<now, dialect, host, stor, locals, last, updates, overrun,
                   settings, zone, last_update_ts, reference, cronloop, store_calls, jobs>>

NextSchedule == ComputeNext

SpecSchedule == InitSchedule /\ [][NextSchedule]_vars

\* ------------------------------------------------- the cron trigger loop
\* schedule_updates starts the timer thread when the configured expression
\* normalizes; the thread runs _loop with the normalized expression.
MaxFires == 3

\* How long a tracker.update() call takes: a minute, or longer than the
\* distance of two fire times of the densest expression.
Durations == {Minute, 45 * Minute}

\* time.sleep(delay) returns after delay seconds or later.
Oversleeps == {0, Minute}

\* The expressions schedule_updates starts the loop with.
LoopCrons == {c \in CronInputs : ~normalize_cron_expression(c.text).none}

cron_str == normalize_cron_expression(settings.update_cron).text

InitCron ==
    /\ now = 1
    /\ dialect = "sqlite"
    /\ host = [p \in Procs |-> "h1"]
    /\ locks = {}
    /\ advisory = {}
    /\ conns = {}
    /\ videos = {}
    /\ history = <<>>
    /\ history_id = 0
    /\ metadata = <<>>
    /\ pc = [p \in Procs |-> "idle"]
    /\ lock_handle = [p \in Procs |-> NoHandle]
    /\ acq_now = [p \in Procs |-> 0]
    /\ fetched = [p \in Procs |-> <<>>]
    /\ timestamp = [p \in Procs |-> 0]
    /\ idx = [p \in Procs |-> 0]
    /\ exc = [p \in Procs |-> FALSE]
    /\ calls = [p \in Procs |-> NoCalls]
    /\ last = [proc |-> "", how |-> "none", held |-> FALSE, fetch |-> 0, release |-> 0]
    /\ updates = 0
    /\ overrun = FALSE
    /\ \E c \in LoopCrons :
          settings = [update_cron |-> c.text, update_schedule |-> <<>>,
                      update_interval_hours |-> 6]
    /\ zone \in Zones
    /\ last_update_ts = 0
    /\ reference = 0
    /\ next_update = NoResult
    /\ loop_pc = "start"
    /\ base = 0
    /\ next_dt = 0
    /\ clock \in Instants
    /\ fired = NotFired
    /\ loop_fires = 0
    /\ store_calls = <<>>
    /\ jobs = <<>>

LoopFrame ==
    UNCHANGED <<now, dialect, host, stor, locals, last, overrun,
                settings, zone, last_update_ts, reference, next_update, store_calls, jobs>>

\* except Exception as exc: print(...), around the whole while loop: _loop
\* returns and the thread ends.
LoopExcept ==
    /\ loop_pc' = "ended"
    /\ base' = base

\* base = datetime.now(); iterator = croniter(cron_str, base), which raises
\* for an expression the library rejects.
LoopStart ==
    /\ loop_pc = "start"
    /\ IF croniter_get_next(cron_str, Local(zone, clock)).raised
       THEN LoopExcept
       ELSE loop_pc' = "next" /\ base' = Local(zone, clock)
    /\ UNCHANGED <<next_dt, clock, fired, loop_fires, updates>>
    /\ LoopFrame

\* next_dt = iterator.get_next(datetime)
LoopNext ==
    /\ loop_pc = "next"
    /\ loop_fires < MaxFires
    /\ next_dt' = croniter_get_next(cron_str, base).value
    /\ loop_pc' = "sleep"
    /\ UNCHANGED <<base, clock, fired, loop_fires, updates>>
    /\ LoopFrame

\* delay = max(0, (next_dt - datetime.now()).total_seconds());
\* time.sleep(delay); tracker.update() is called.
LoopSleep ==
    /\ loop_pc = "sleep"
    /\ \E over \in Oversleeps :
          LET delay == IF next_dt > Local(zone, clock) THEN next_dt - Local(zone, clock)
                       ELSE 0
          IN  /\ clock' = clock + delay + over
              /\ fired' = [target |-> next_dt, at |-> clock', done |-> 0]
    /\ loop_pc' = "update"
    /\ loop_fires' = loop_fires + 1
    /\ updates' = updates + 1
    /\ UNCHANGED <<base, next_dt>>
    /\ LoopFrame

\* tracker.update() returns; base = datetime.now();
\* iterator = croniter(cron_str, base)
LoopUpdateReturns ==
    /\ loop_pc = "update"
    /\ \E d \in Durations : clock' = clock + d
    /\ fired' = [fired EXCEPT !.done = clock']
    /\ base' = Local(zone, clock')
    /\ loop_pc' = "next"
    /\ UNCHANGED <<next_dt, loop_fires, updates>>
    /\ LoopFrame

\* An exception is raised inside an iteration: by iterator.get_next, by
\* time.sleep or out of tracker.update().
LoopRaises ==
    /\ loop_pc \in {"next", "sleep", "update"}
    /\ LoopExcept
    /\ UNCHANGED <<next_dt, clock, fired, loop_fires, updates>>
    /\ LoopFrame

NextCron == LoopStart \/ LoopNext \/ LoopSleep \/ LoopUpdateReturns \/ LoopRaises

SpecCron == InitCron /\ [][NextCron]_vars

\* ------------------------------------------ the registration at startup
\* scheduler_module.every().day.at(entry): the schedule library takes a time
\* of day written HH:MM or HH:MM:SS, the hour of two digits and at most 23,
\* and raises for any other text.
schedule_at_raises(entry) ==
    LET parts == Split(entry, ":")
        two(part) == Len(part) = 2 /\ IsDigit(part[1]) /\ IsDigit(part[2])
    IN  ~ /\ Len(parts) \in {2, 3}
          /\ \A i \in 1..Len(parts) : two(parts[i])
          /\ ParseInt(parts[1]).value <= 23
          /\ \A i \in 2..Len(parts) : ParseInt(parts[i]).value <= 59

\* every().day.at(entry).do(tracker.update)
DailyJob(entry) == [unit |-> "days", interval |-> 1, at |-> entry]

\* every(update_interval_hours).hours.do(tracker.update)
HourlyJob(hours) == [unit |-> "hours", interval |-> hours, at |-> <<>>]

\* The loop over schedule_entries: the jobs registered, the entries the
\* library raises for being skipped.
RegisterDaily(schedule_entries) ==
    LET taken == SelectSeq(schedule_entries, LAMBDA e : ~schedule_at_raises(e))
    IN  [i \in 1..Len(taken) |-> DailyJob(taken[i])]

\* schedule_updates(settings, tracker), called once at startup: the cron
\* thread is started when update_cron normalizes; else the daily jobs are
\* registered when _parse_update_schedule yields a candidate and a job came
\* of it; else the interval job.
schedule_updates ==
    /\ loop_pc = "none"
    /\ jobs = <<>>
    /\ LET cron_expr == IF settings.update_cron # <<>>
                        THEN normalize_cron_expression(settings.update_cron)
                        ELSE None
           tokens == Split(settings.update_schedule, ",")
           schedule_entries == SelectSeq([i \in 1..Len(tokens) |-> Strip(tokens[i])],
                                         LAMBDA e : e # <<>>)
           valid_schedule == parse_update_schedule(settings.update_schedule,
                                                   Local(zone, reference))
           daily == RegisterDaily(schedule_entries)
       IN  IF ~cron_expr.none
           THEN /\ loop_pc' = "start"
                /\ clock' = reference
                /\ jobs' = jobs
           ELSE /\ jobs' = IF valid_schedule # <<>> /\ daily # <<>>
                           THEN daily
                           ELSE <<HourlyJob(settings.update_interval_hours)>>
                /\ UNCHANGED <<loop_pc, clock>>
    /\ UNCHANGED <<now, dialect, host, stor, locals, last, updates, overrun,
                   settings, zone, last_update_ts, reference, next_update,
                   base, next_dt, fired, loop_fires, store_calls>>

\* Startup registers the triggers, the cron thread takes its first step, and
\* the status request asks the calculator.
NextRegister == schedule_updates \/ LoopStart \/ ComputeNext

SpecRegister == InitSchedule /\ [][NextRegister]_vars

\* ================================================================ claims
\* Fetching or Persisting: the part of update() run under the lock.
InCycle(p) == pc[p] \in {"fetch", "save", "meta"}

\* The lock row the table-based acquire of p writes.
RowOf(p) == [key |-> LockName, owner |-> host[p], expires_at |-> acq_now[p] + LockTtl]

\* The lock is free or expired for the acquire p is making.
LockFreeFor(p) ==
    IF dialect = "postgresql" THEN advisory = {}
    ELSE \A r \in locks : r.expires_at < acq_now[p]

\* What the acquire q is making would return now: no handle.
Denied(q) ==
    IF dialect = "postgresql" THEN advisory # {}
    ELSE AcquireTable(locks, host[q], acq_now[q], LockTtl).handle = NoHandle

\* p's acquire_update_lock returns in this step, with a handle / with None.
Granted(p) == pc[p] = "acquire" /\ pc'[p] = "fetch"
Refused(p) == pc[p] = "acquire" /\ pc'[p] = "idle" /\ last'.how = "skipped"

\* C1 (as stated): at most one update cycle is in the lock-held part of
\* update() (Fetching or Persisting) at any time, over all triggers and all
\* instances that share the storage.
C1_AtMostOneCycle == Cardinality({p \in Procs : InCycle(p)}) <= 1

\* C1 (amended): at most one update cycle is in the lock-held part of update()
\* at any time, as long as no cycle has stayed between acquiring and releasing
\* the table lock past the expiry of its lock.
C1_AtMostOneCycleWithinTtl == ~overrun => C1_AtMostOneCycle

\* C1 witness: one cycle is in its lock-held part and the update() of the
\* other trigger has just been turned away.
C1_Witness ==
    \E p, q \in Procs :
        /\ p # q /\ InCycle(p) /\ ~overrun
        /\ pc[q] = "idle" /\ last.proc = q /\ last.how = "skipped"

\* C2 (as stated): of two acquire_update_lock calls that run concurrently
\* while the lock is free or expired, the first to run its statements returns
\* a handle and the other then returns None (it never waits).
C2_ExactlyOneWins ==
    [][\A p, q \in Procs :
          /\ (pc[p] = "acquire" /\ LockFreeFor(p) /\ (Granted(p) \/ Refused(p)))
                => Granted(p)
          /\ (p # q /\ pc[q] = "acquire" /\ LockFreeFor(q) /\ Granted(p))
                => Denied(q)']_vars

\* C2 (amended): the same, provided the loser read the clock no later than
\* the expiry the winner wrote (winner's clock reading + TTL).
C2_ExactlyOneWinsWithinTtl ==
    [][\A p, q \in Procs :
          /\ (pc[p] = "acquire" /\ LockFreeFor(p) /\ (Granted(p) \/ Refused(p)))
                => Granted(p)
          /\ (p # q /\ pc[q] = "acquire" /\ LockFreeFor(q) /\ Granted(p)
                /\ acq_now[q] <= acq_now[p] + LockTtl)
                => Denied(q)']_vars

\* C2 witness: both triggers read the clock at the same instant with the lock
\* free; one holds the lock and the other got None at that very instant.
C2_Witness ==
    \E p, q \in Procs :
        /\ p # q /\ dialect = "sqlite" /\ pc[p] = "fetch" /\ locks = {RowOf(p)}
        /\ acq_now[p] = now /\ last.proc = q /\ last.how = "skipped" /\ updates = 2

\* C3: the table-based acquire made with clock reading now returns a handle
\* exactly when no lock row exists or the row's expiry is strictly earlier
\* than now; then the row holds the new owner and the expiry now + ttl; a
\* lock that is not expired keeps its row.
C3_AcquireExactlyWhenFreeOrExpired ==
    [][\A p \in Procs :
          (dialect = "sqlite" /\ (Granted(p) \/ Refused(p))) =>
             /\ Granted(p) <=> (locks = {} \/ \E r \in locks : r.expires_at < acq_now[p])
             /\ Granted(p) => locks' = {[key |-> LockName, owner |-> host[p],
                                         expires_at |-> acq_now[p] + LockTtl]}
             /\ (\E r \in locks : r.expires_at >= acq_now[p]) => locks' = locks]_vars

\* C3 witness: a cycle holds a row it took over from a cycle of another host
\* that is still running past its expiry.
C3_Witness ==
    \E p, q \in Procs :
        /\ p # q /\ dialect = "sqlite" /\ host[p] # host[q]
        /\ pc[p] = "fetch" /\ pc[q] \in HeldPcs
        /\ locks = {RowOf(p)} /\ acq_now[p] > acq_now[q] + LockTtl

\* p acquired the table lock and died without releasing; its row is still
\* the lock row.
CrashedHolder(p) ==
    /\ dialect = "sqlite"
    /\ pc[p] = "crashed"
    /\ locks = {RowOf(p)}

\* C4 (as stated): after a holder acquired at time t and crashed, every
\* acquire made with a clock reading from t + TTL onwards returns a handle.
C4_AcquirableFromExpiry ==
    [][\A p, q \in Procs :
          (CrashedHolder(p) /\ (Granted(q) \/ Refused(q))
             /\ acq_now[q] >= acq_now[p] + LockTtl) => Granted(q)]_vars

\* C4 (amended): after a holder acquired at time t and crashed, every acquire
\* made with a clock reading strictly later than t + TTL, while the crashed
\* holder's row is still the lock row, returns a handle.
C4_AcquirableAfterExpiry ==
    [][\A p, q \in Procs :
          (CrashedHolder(p) /\ (Granted(q) \/ Refused(q))
             /\ acq_now[q] > acq_now[p] + LockTtl) => Granted(q)]_vars

\* C4 witness: the lock of a crashed holder has been taken over after its
\* expiry.
C4_Witness ==
    \E p, q \in Procs :
        /\ dialect = "sqlite" /\ pc[p] = "crashed" /\ lock_handle[p] # NoHandle
        /\ pc[q] = "fetch" /\ locks = {RowOf(q)}
        /\ acq_now[q] > acq_now[p] + LockTtl

\* C5: a release by a caller whose lock expired and was reclaimed by another
\* update cycle (the lock row is the one that cycle wrote) leaves the row in
\* place.
C5_ReleaseKeepsReclaimedLock ==
    [][\A p, q \in Procs :
          (p # q /\ dialect = "sqlite" /\ Release(p)
             /\ pc[q] \in HeldPcs /\ locks = {RowOf(q)} /\ RowOf(q) # RowOf(p))
          => locks' = locks]_vars

\* C6: when the holder releases the lock the lock is free, and the acquire
\* that runs next on the free lock returns a handle, whoever makes it.
C6_AcquireAfterRelease ==
    [][\A p, q \in Procs :
          /\ (Release(p) /\ dialect = "sqlite" /\ locks = {RowOf(p)}) => locks' = {}
          /\ (Release(p) /\ dialect = "postgresql" /\ advisory = {p}) => advisory' = {}
          /\ ((Granted(q) \/ Refused(q))
                /\ (IF dialect = "sqlite" THEN locks = {} ELSE advisory = {}))
             => Granted(q)]_vars

\* C6 witness: a cycle of one host has released the lock in time and a trigger
\* of another host now holds it.
C6_Witness ==
    \E p, q \in Procs :
        /\ host[p] # host[q] /\ dialect = "sqlite" /\ ~overrun
        /\ last.proc = p /\ last.held /\ last.release = 1 /\ pc[p] = "idle"
        /\ pc[q] = "fetch" /\ locks = {RowOf(q)}

\* C7: an update() that obtained a lock handle has called release_update_lock
\* exactly once when it returns, on every exit path (normal completion, an
\* exception while fetching, an exception while persisting), and not before
\* it leaves the lock-held part.
C7_ReleasedExactlyOnce ==
    /\ last.held => last.release = 1
    /\ \A p \in Procs : pc[p] \in HeldPcs => calls[p].release = 0

\* C7 witness: an update() that held the lock and failed inside the inner
\* try block has returned, having released once.
C7_Witness ==
    /\ last.held /\ last.how = "logged" /\ last.release = 1
    /\ pc[last.proc] = "idle"

\* C8: update() never lets an exception reach its caller and never retries:
\* fetch_all_videos is started at most once per call, a step never goes back
\* to fetching or acquiring from a later position, and a call starts from lock
\* acquisition with nothing carried over from the call before.
C8_NoRaiseNoRetry ==
    [][/\ last'.how # "raised"
       /\ last'.fetch <= 1
       /\ \A p \in Procs :
            /\ calls'[p].fetch <= 1
            /\ (pc'[p] = "fetch" /\ pc[p] # "fetch") => pc[p] = "acquire"
            /\ (pc'[p] = "acquire" /\ pc[p] # "acquire") =>
                  /\ pc[p] = "idle"
                  /\ calls'[p] = NoCalls
                  /\ lock_handle'[p] = NoHandle
                  /\ ~exc'[p]]_vars

\* C8 witness: after an update() that failed while fetching returned to its
\* caller, the same trigger is in a new update() at lock acquisition.
C8_Witness ==
    /\ last.how = "logged" /\ last.held /\ last.fetch = 1
    /\ pc[last.proc] = "acquire" /\ videos = {}

\* The lock is held by someone else and unexpired for the acquire p makes.
LockLiveFor(p) ==
    IF dialect = "postgresql" THEN advisory # {}
    ELSE \E r \in locks : r.expires_at >= acq_now[p]

\* C9: an update() called while the lock is held by someone else and
\* unexpired writes nothing (tracked items, history, metadata and the lock row
\* stay as they are), makes no fetch, and returns as skipped, without error.
C9_SkipWritesNothing ==
    [][\A p \in Procs :
          /\ (pc[p] = "idle" /\ pc'[p] = "acquire") =>
                UNCHANGED <<locks, advisory, videos, history, history_id, metadata>>
          /\ (LockLiveFor(p) /\ (Granted(p) \/ Refused(p))) =>
                /\ Refused(p)
                /\ UNCHANGED <<locks, advisory, videos, history, history_id, metadata>>
                /\ last'.proc = p /\ last'.fetch = 0 /\ ~last'.held]_vars

\* C9 witness: an update() has been skipped while another cycle is in the
\* middle of persisting.
C9_Witness ==
    \E q \in Procs :
        /\ last.how = "skipped" /\ last.fetch = 0 /\ last.proc # q
        /\ pc[q] = "save" /\ idx[q] = 2 /\ Len(history) = 1 /\ ~overrun

\* The persistence of the batch p fetched has completed.
Persisted(p) == pc[p] = "release" /\ ~exc[p]

\* The snapshot of tracked item b[i] holds the title and view count of b[i].
SnapshotOf(b, i) ==
    \E r \in videos : /\ r.video_id = b[i].videoId
                      /\ r.title = b[i].title
                      /\ r.current_views = b[i].viewCount

\* The last n history entries are the batch's, in order, all at timestamp T.
HistoryOf(b, T) ==
    /\ Len(b) <= Len(history)
    /\ \A i \in 1..Len(b) :
         LET h == history[Len(history) - Len(b) + i]
         IN  h.video_id = b[i].videoId /\ h.timestamp = T /\ h.view_count = b[i].viewCount

HistoryRows(hist, video_id) == {r \in SeqToSet(hist) : r.video_id = video_id}

\* C11: every item has at most 100 history entries in every committed state;
\* whatever save_video call comes next, the entries it retains for its item
\* are those with the largest timestamps among the old ones and the new one,
\* 100 of them when there were more (the oldest are dropped), and the entries
\* of other items stay; get_video_history returns the retained entries in
\* ascending timestamp order.
C11_HistoryCapped ==
    \A v \in {"v1", "v2"} :
        /\ Cardinality(HistoryRows(history, v)) <= HistoryLimit
        /\ \A ts \in Stamps :
             \A db \in save_video(videos, history, history_id, v, "T", 0, ts, NULL) :
                LET all == HistoryRows(history, v) \cup
                             {[id |-> history_id + 1, video_id |-> v,
                               timestamp |-> ts, view_count |-> 0]}
                    kept == HistoryRows(db.history, v)
                IN  /\ kept \subseteq all
                    /\ Cardinality(kept) =
                          IF Cardinality(all) > HistoryLimit THEN HistoryLimit
                          ELSE Cardinality(all)
                    /\ \A d \in all \ kept, r \in kept : d.timestamp <= r.timestamp
                    /\ \A w \in {"v1", "v2"} \ {v} :
                          HistoryRows(db.history, w) = HistoryRows(history, w)
        /\ \A tie \in TieOrders :
             LET got == get_video_history(history, v, tie)
             IN  /\ Len(got) = Cardinality(HistoryRows(history, v))
                 /\ \A i \in 1..(Len(got) - 1) : got[i].timestamp <= got[i + 1].timestamp
                 /\ {got[i] : i \in 1..Len(got)} =
                       {[timestamp |-> r.timestamp, viewCount |-> r.view_count] :
                           r \in HistoryRows(history, v)}

\* C11 witness: an item has 100 entries after saves that went beyond 100, one
\* of which dropped an entry written at the same instant as one it kept.
C11_Witness ==
    /\ Cardinality(HistoryRows(history, "v1")) = HistoryLimit
    /\ history_id > HistoryLimit
    /\ \E r \in HistoryRows(history, "v1") : r.timestamp = 2 /\ r.id <= 2
    /\ \E i \in 1..2 : \A r \in HistoryRows(history, "v1") : r.id # i

\* C12: once a tracked item has a non-empty published-at, no later save of the
\* item (in particular one with an absent or empty published-at) leaves it
\* with an empty one.
C12_PublishedAtKept ==
    [][\A r \in videos : \A x \in videos' :
          (r.video_id = x.video_id /\ r.published_at \notin {"", NULL})
             => x.published_at \notin {"", NULL}]_vars

\* The configured cron expression and fixed-time list, with what they mean.
CronOf(s) == CHOOSE c \in CronInputs : c.text = s.update_cron

ScheduleOf(s) == CHOOSE f \in ScheduleInputs : f.text = s.update_schedule

\* compute_next_update_timestamp has been called.
Computed == next_update # NoResult

\* C13: normalize_cron_expression returns, for an input of n = 3..6 tokens,
\* a string of exactly 5 whitespace-separated fields, the first min(n, 5)
\* tokens of the input in order and then "*", and returns None for an input
\* of fewer than 3 or more than 6 tokens.
C13_NormalizeCron ==
    LET c == CronOf(settings)
        n == Len(c.tokens)
        r == normalize_cron_expression(c.text)
    IN  IF n \in 3..6
        THEN /\ ~r.none
             /\ Len(SplitWhitespace(r.text)) = 5
             /\ SplitWhitespace(r.text) =
                   [i \in 1..5 |-> IF i <= n THEN c.tokens[i] ELSE <<"*">>]
             /\ r.text = Join(SplitWhitespace(r.text), <<" ">>)
        ELSE r.none

\* C13 witness: the calculator ran on a cron expression of six tokens.
C13_Witness ==
    /\ Computed /\ next_update.branch = "cron"
    /\ Len(CronOf(settings).tokens) = 6

\* The wall-clock reading r is one cron expression c fires at.
Fires(c, r) ==
    /\ r % Minute = 0
    /\ (r % Hour) \div Minute \in c.minutes
    /\ (r % Day) \div Hour \in c.hours
    /\ DayOfMonth(r \div Day) \in c.days

\* r is the first reading after the reading t that c fires at.
FirstFire(c, t, r) ==
    /\ Fires(c, r)
    /\ r > t
    /\ \A d \in (t \div Day)..(r \div Day) : \A h \in c.hours : \A m \in c.minutes :
          LET x == d * Day + h * Hour + m * Minute
          IN  ~(Fires(c, x) /\ t < x /\ x < r)

\* The instant u is the one the local clock reads r at (the instant r would
\* be read at with the offset before the change, when the clock skips r).
ReadsAs(z, u, r) ==
    \/ Local(z, u) = r
    \/ /\ \A off \in {z.before, z.after} : Local(z, r - off) # r
       /\ u = r - z.before

NextOccurrence(hm, t) ==
    LET today == DayStart(t) + hm[1] * Hour + hm[2] * Minute
    IN  IF today > t THEN today ELSE today + Day

\* C15: with no cron expression and a fixed-time list with a valid token the
\* calculator returns the earliest of the next occurrences of the valid
\* tokens' times (tomorrow's for a time that has passed today), whatever the
\* last update and the interval.
C15_FixedTimes ==
    (Computed /\ settings.update_cron = <<>> /\ ScheduleOf(settings).times # {}) =>
        /\ next_update.branch = "schedule"
        /\ ReadsAs(zone, next_update.value,
                   Min({NextOccurrence(hm, Local(zone, reference)) :
                           hm \in ScheduleOf(settings).times}))
        /\ \A h \in IntervalHours, l \in LastUpdates :
              compute_next_update_timestamp(
                  [settings EXCEPT !.update_interval_hours = h],
                  l, Local(zone, reference), zone) = next_update

\* C15 witness: all configured times had passed and the calculator returned
\* a time of the next day.
C15_Witness ==
    /\ Computed /\ settings.update_cron = <<>>
    /\ settings.update_schedule = ScheduleTwo.text
    /\ Local(zone, next_update.value) \div Day > Local(zone, reference) \div Day
    /\ last_update_ts # 0

\* Neither a cron expression nor a fixed-time list is configured.
IntervalOnly == settings.update_cron = <<>> /\ settings.update_schedule = <<>>

\* The instant the interval counts from.
BaseInstant == IF last_update_ts # 0 THEN last_update_ts ELSE reference

\* C16 (as stated): with neither cron nor fixed times the calculator returns
\* lastUpdate + intervalHours when there was an update, now + intervalHours
\* when there was none.
C16_Interval ==
    (Computed /\ IntervalOnly) =>
        next_update.value = BaseInstant + settings.update_interval_hours * Hour

\* C17: the calculator uses cron whenever the expression is valid (it
\* normalizes and the cron library accepts it), else the fixed times when a
\* token is valid (the others are skipped), else the interval; it returns a
\* value for every cron expression and every token.
C17_Precedence ==
    Computed =>
        LET c == CronOf(settings)
            f == ScheduleOf(settings)
            t == Local(zone, reference)
        IN  /\ next_update.branch =
                  IF c.valid THEN "cron"
                  ELSE IF f.times # {} THEN "schedule"
                  ELSE "interval"
            /\ next_update.branch = "cron" =>
                  \E r \in {Local(zone, next_update.value), next_update.value + zone.before} :
                      FirstFire(c, t, r) /\ ReadsAs(zone, next_update.value, r)
            /\ next_update.branch = "schedule" =>
                  ReadsAs(zone, next_update.value,
                          Min({NextOccurrence(hm, t) : hm \in f.times}))
            /\ next_update.branch = "interval" =>
                  ReadsAs(zone, next_update.value,
                          Local(zone, BaseInstant) + settings.update_interval_hours * Hour)

\* C17 witness: a cron expression the library rejects and a list with tokens
\* that are no times led to the fixed time of a later valid token.
C17_Witness ==
    /\ Computed /\ settings.update_cron = CronBadMinute.text
    /\ settings.update_schedule = ScheduleMixed.text
    /\ next_update.branch = "schedule"
    /\ Local(zone, next_update.value) % Day = 6 * Hour + 30 * Minute

\* The pages fetch_all_videos requested, in the order of the requests.
ListedPages(log) ==
    LET lists == SelectSeq(log, LAMBDA e : e.call = "list")
    IN  [i \in 1..Len(lists) |-> lists[i].page]

\* The videoId of each video of a result.
IdsOf(all_videos) == [i \in 1..Len(all_videos) |-> all_videos[i].videoId]

\* A page the list call answers with items none of which names a video.
BarePage(catalog, k) ==
    /\ ~catalog[k].raises
    /\ catalog[k].items # <<>>
    /\ VideoIdsOf(catalog[k].items) = <<>>

\* C18: a page with zero identifiers is not the end of the data: when it
\* carries a continuation token the next request is the list call with that
\* token, no statistics call is made for the page, and the items of the
\* pages after it are in the result.
C18_BarePageSkipped ==
    /\ \A catalog \in IngestCatalogs :
          LET r == fetch_all_videos(catalog)
          IN  \A i \in 1..Len(r.log) :
                 LET k == r.log[i].page
                 IN  (r.log[i].call = "list" /\ BarePage(catalog, k)
                        /\ catalog[k].nextPageToken # 0) =>
                         /\ i < Len(r.log)
                         /\ r.log[i + 1] = ListCall(catalog[k].nextPageToken)
                         /\ \A j \in 1..Len(r.log) :
                               ~(r.log[j].call = "stats" /\ r.log[j].page = k)
                         /\ ~r.raised =>
                               \A j \in (i + 1)..Len(r.log) :
                                  r.log[j].call = "stats" =>
                                     \A n \in 1..Len(catalog[r.log[j].page].stats) :
                                        VideoOf(catalog[r.log[j].page].stats[n])
                                           \in SeqToSet(r.videos)
    /\ IdsOf(fetch_all_videos(CatalogHoles).videos) = <<"v1", "v2">>
    /\ fetch_all_videos(CatalogHoles).log =
          <<ListCall(1), StatsCall(1, <<"v1">>), ListCall(2), ListCall(3),
            StatsCall(3, <<"v2">>)>>
    /\ IdsOf(fetch_all_videos(CatalogSparse).videos) = <<"v2">>
    /\ (pc[Solo] = "save" /\ idx[Solo] = 1) =>
          \E catalog \in IngestCatalogs : fetched[Solo] = fetch_all_videos(catalog).videos

\* C18 witness: a cycle fetched the catalog whose second page names no
\* video, and holds the videos of the pages before and after it.
C18_Witness ==
    /\ pc[Solo] = "save"
    /\ fetched[Solo] = fetch_all_videos(CatalogHoles).videos
    /\ IdsOf(fetched[Solo]) = <<"v1", "v2">>

\* The videos of the statistics responses of the given pages, page by page.
RECURSIVE StatsOfPages(_, _)
StatsOfPages(catalog, pages) ==
    IF pages = <<>> THEN <<>>
    ELSE LET page == catalog[Head(pages)]
         IN  (IF VideoIdsOf(page.items) = <<>> THEN <<>>
              ELSE [n \in 1..Len(page.stats) |-> VideoOf(page.stats[n])])
             \o StatsOfPages(catalog, Tail(pages))

\* C19: fetch_all_videos requests the pages along the continuation tokens
\* from the first page on, stops at the first page that has no continuation
\* token or no items, requests no page after it, and returns the statistics
\* items of the pages in page order, each page's in response order.
C19_StopsAtLastPage ==
    /\ \A catalog \in IngestCatalogs :
          LET r == fetch_all_videos(catalog)
              pages == ListedPages(r.log)
              n == Len(pages)
          IN  /\ n >= 1 /\ pages[1] = 1
              /\ \A i \in 1..(n - 1) :
                    /\ ~catalog[pages[i]].raises
                    /\ catalog[pages[i]].items # <<>>
                    /\ catalog[pages[i]].nextPageToken = pages[i + 1]
              /\ ~r.raised =>
                    /\ \/ catalog[pages[n]].items = <<>>
                       \/ catalog[pages[n]].nextPageToken = 0
                    /\ r.videos = StatsOfPages(catalog, pages)
    /\ IdsOf(fetch_all_videos(CatalogOnePage).videos) = <<"v2", "v1">>
    /\ ListedPages(fetch_all_videos(CatalogGap).log) = <<1, 2>>
    /\ IdsOf(fetch_all_videos(CatalogGap).videos) = <<"v1">>
    /\ ListedPages(fetch_all_videos(CatalogRepeat).log) = <<1, 2>>
    /\ IdsOf(fetch_all_videos(CatalogRepeat).videos) = <<"v1", "v1">>
    /\ (pc[Solo] = "save" /\ idx[Solo] = 1) =>
          \E catalog \in IngestCatalogs :
             /\ ~fetch_all_videos(catalog).raised
             /\ fetched[Solo] = StatsOfPages(catalog, ListedPages(fetch_all_videos(catalog).log))

\* C19 witness: a cycle fetched the catalog whose second page has no items
\* and a token, and holds the videos of the first page only.
C19_Witness ==
    /\ pc[Solo] = "save"
    /\ fetched[Solo] = fetch_all_videos(CatalogGap).videos
    /\ Len(fetched[Solo]) = 1

\* The call the collaborator answers with a failure.
Fails(catalog, e) ==
    \/ e.call = "list" /\ catalog[e.page].raises
    \/ e.call = "stats" /\ catalog[e.page].stats_raises

\* What fetch_all_videos does about failing calls: no request is made twice,
\* a failing call is the last one and makes fetch_all_videos raise.
NoRetry ==
    /\ \A catalog \in PagedCatalogs :
          LET r == fetch_all_videos(catalog)
          IN  /\ \A i, j \in 1..Len(r.log) :
                    (i # j) => <<r.log[i].call, r.log[i].page>> # <<r.log[j].call, r.log[j].page>>
              /\ \A i \in 1..Len(r.log) :
                    Fails(catalog, r.log[i]) => (i = Len(r.log) /\ r.raised)
              /\ r.raised => Fails(catalog, r.log[Len(r.log)])
    /\ fetch_all_videos(CatalogListFails).log =
          <<ListCall(1), StatsCall(1, <<"v1">>), ListCall(2)>>
    /\ fetch_all_videos(CatalogListFails).raised
    /\ fetch_all_videos(CatalogStatsFailLater).log =
          <<ListCall(1), StatsCall(1, <<"v1">>), ListCall(2), StatsCall(2, <<"v2">>)>>
    /\ fetch_all_videos(CatalogStatsFailLater).raised
    /\ fetch_all_videos(CatalogStatsFail).raised

\* update() when fetch_all_videos raises: nothing is stored, the lock is
\* released next, and the call ends in the except clause.
FetchFailureEndsCycle ==
    /\ (pc[Solo] = "fetch" /\ pc'[Solo] # "fetch" /\ pc'[Solo] # "crashed") =>
          /\ calls'[Solo].fetch = 1
          /\ exc'[Solo] = (pc'[Solo] = "release")
          /\ exc'[Solo] => (fetched' = fetched /\ stor' = stor)
    /\ (pc[Solo] = "release" /\ exc[Solo]) =>
          /\ <<videos, history, history_id, metadata>>' =
                <<videos, history, history_id, metadata>>
          /\ pc'[Solo] = "idle" => last'.how = "logged"

\* C20: a failure of the list call or of the statistics call is not retried
\* inside fetch_all_videos (no page is requested twice), it propagates out of
\* fetch_all_videos, and update() ends the cycle as failed without storing
\* anything.
C20_FailureNotRetried == [](NoRetry) /\ [][FetchFailureEndsCycle]_vars

\* C20 witness: fetch_all_videos raised in the one fetch of a cycle, which
\* is about to release its lock and has stored nothing.
C20_Witness ==
    /\ pc[Solo] = "release" /\ exc[Solo] /\ timestamp[Solo] = 0
    /\ calls[Solo].fetch = 1
    /\ videos = {} /\ history_id = 0 /\ metadata = <<>>

\* No call of the API collaborator fails on the catalog.
Answered(catalog) ==
    \A k \in 1..Len(catalog) : ~catalog[k].raises /\ ~catalog[k].stats_raises

\* C21 (as stated): malformed or missing fields inside an item never abort
\* fetch_all_videos: on a catalog all of whose calls are answered it returns,
\* with an empty title for an item without title, the view count 0 for an
\* item without view count, no video for an entry without reference, and
\* every other item of the requested pages.
C21_MalformedTolerated ==
    /\ \A catalog \in MalformedCatalogs :
          LET r == fetch_all_videos(catalog)
          IN  Answered(catalog) =>
                 /\ ~r.raised
                 /\ \A k \in SeqToSet(ListedPages(r.log)) :
                       \A n \in 1..Len(catalog[k].stats) :
                          ~VideoRaises(catalog[k].stats[n]) =>
                             VideoOf(catalog[k].stats[n]) \in SeqToSet(r.videos)
    /\ fetch_all_videos(CatalogMissingFields).videos =
          <<[videoId |-> "v1", title |-> "", viewCount |-> 0, publishedAt |-> ""],
            [videoId |-> "v2", title |-> "T2", viewCount |-> 27,
             publishedAt |-> "2020-01-02"]>>
    /\ fetch_all_videos(CatalogMissingFields).log =
          <<ListCall(1), StatsCall(1, <<"v1", "v2">>)>>
    /\ (pc[Solo] = "save" /\ idx[Solo] = 1) =>
          \A n \in 1..Len(fetched[Solo]) : fetched[Solo][n].viewCount >= 0

\* C22 (as stated): an exception raised inside an iteration of the cron
\* trigger loop is logged and the loop goes on; the timer thread never ends
\* because of an exception.
C22_LoopSurvivesException ==
    [][(loop_pc \in {"next", "sleep", "update"}) => (loop_pc' # "ended")]_vars

\* The loop's tracker.update() call is running.
Updating == loop_pc = "update"

\* tracker.update() is not called before the fire instant the loop computed:
\* the local clock does not read less than the target when it is called.
NotBeforeTarget == Updating => Local(zone, fired.at) >= fired.target

\* The target computed after a tracker.update() call returned is the first
\* fire time after the clock reading at the return.
TargetFromReturn ==
    (loop_pc = "sleep" /\ loop_fires > 0) =>
        /\ next_dt > Local(zone, fired.done)
        /\ FirstFire(CronOf(settings), Local(zone, fired.done), next_dt)

\* A tracker.update() call of the loop starts after the one before it has
\* returned.
OneAtATime ==
    (loop_fires' = loop_fires + 1) =>
        /\ ~Updating
        /\ loop_fires > 0 => (fired.done # 0 /\ fired.done <= fired'.at)

\* C28 (as stated): the loop never calls update() before the computed fire
\* instant, its calls never overlap, and the next fire instant is computed
\* from the clock when update() returned, so it is later than that and fire
\* times that passed during the update are left out.
C28_FireInstants == [](NotBeforeTarget /\ TargetFromReturn) /\ [][OneAtATime]_vars

\* C26 (as stated): when entries of equal timestamp compete at the
\* retention boundary the prune keeps the later-inserted and drops the
\* earlier-inserted ones, so that the entries a save retains are determined.
C26_TiesByInsertionOrder ==
    \A v \in {"v1", "v2"} : \A ts \in Stamps :
        LET outcomes == save_video(videos, history, history_id, v, "T", 0, ts, NULL)
            all == HistoryRows(history, v) \cup
                     {[id |-> history_id + 1, video_id |-> v,
                       timestamp |-> ts, view_count |-> 0]}
        IN  /\ Cardinality(outcomes) = 1
            /\ \A db \in outcomes :
                  \A d \in all \ HistoryRows(db.history, v), r \in HistoryRows(db.history, v) :
                     d.timestamp = r.timestamp => d.id < r.id

\* The fixed-times branch ran: no cron fire time was returned.
ScheduleParsed == Computed /\ next_update.branch # "cron"

\* The candidates _parse_update_schedule yields at the reading of now.
Candidates == SeqToSet(parse_update_schedule(settings.update_schedule, Local(zone, reference)))

\* C25 as stated: for each valid HH:MM token the fixed-times branch yields
\* the earliest reading on or after now with that time of day, so a token
\* equal to now's time yields now itself.
C25_OnOrAfterNow ==
    ScheduleParsed =>
        LET t == Local(zone, reference)
            today(hm) == DayStart(t) + hm[1] * Hour + hm[2] * Minute
        IN  Candidates = {IF today(hm) >= t THEN today(hm) ELSE today(hm) + Day :
                             hm \in ScheduleOf(settings).times}

\* C25 amended: for each valid HH:MM token the fixed-times branch yields the
\* earliest reading strictly after now with that time of day: tomorrow's
\* occurrence is used when the time of day has passed today or is now's own
\* time, so a token equal to now's time yields now plus one day.
C25_StrictlyAfterNow ==
    ScheduleParsed =>
        LET t == Local(zone, reference)
        IN  /\ Candidates = {NextOccurrence(hm, t) : hm \in ScheduleOf(settings).times}
            /\ \A c \in Candidates :
                  /\ c > t /\ c - Day <= t
                  /\ \E hm \in ScheduleOf(settings).times :
                        c % Day = hm[1] * Hour + hm[2] * Minute
            /\ \A hm \in ScheduleOf(settings).times :
                  t % Day = hm[1] * Hour + hm[2] * Minute => t + Day \in Candidates

\* C25 witness: the only token is now's own time of day and the calculator
\* returned the instant one day after now.
C25_Witness ==
    /\ ScheduleParsed /\ next_update.branch = "schedule"
    /\ ScheduleOf(settings).times = {<<1, 30>>}
    /\ Local(zone, reference) % Day = Hour + 30 * Minute
    /\ Candidates = {Local(zone, reference) + Day}
    /\ next_update.value = reference + Day

\* The cycle of p has failed in save_video for item idx[p] of its batch and
\* has not returned yet.
SaveFailed(p) ==
    /\ pc[p] = "release" /\ exc[p]
    /\ idx[p] \in 1..Len(fetched[p])

\* The items of the batch before the failing one are persisted.
SavedBefore(p) ==
    LET saved == SubSeq(fetched[p], 1, idx[p] - 1)
    IN  /\ HistoryOf(saved, timestamp[p])
        /\ \A i \in 1..Len(saved) :
              (\A j \in (i + 1)..Len(saved) : saved[j].videoId # saved[i].videoId)
              => SnapshotOf(saved, i)

\* A step that changes the metadata is a step of a cycle that has saved every
\* item of its batch; a step that fails in save_video changes nothing stored,
\* and no later step of the failed cycle changes the metadata.
MetadataAfterBatch ==
    /\ metadata' # metadata =>
          /\ pc[Solo] \in {"save", "meta"} /\ ~exc[Solo]
          /\ idx[Solo] > Len(fetched[Solo])
          /\ HistoryOf(fetched[Solo], timestamp[Solo])
    /\ (pc[Solo] = "save" /\ idx[Solo] <= Len(fetched[Solo]) /\ SaveFailed(Solo)') =>
          UNCHANGED <<videos, history, history_id, metadata>>
    /\ SaveFailed(Solo) => UNCHANGED <<videos, history, history_id, metadata>>

\* C27: the two metadata writes of a cycle happen only after every item of
\* the batch has been persisted: when saving an item fails, neither
\* lastUpdate nor totalVideos is modified in that cycle (none is there after
\* a failed first cycle), while the items saved before the failure remain.
C27_MetadataAfterItems ==
    /\ [](SaveFailed(Solo) => SavedBefore(Solo))
    /\ []((SaveFailed(Solo) /\ updates = 1) => metadata = <<>>)
    /\ [][MetadataAfterBatch]_vars

\* C27 witness: the second cycle failed saving the second of two items: the
\* first is stored with the cycle's timestamp and the metadata is still that
\* of the first cycle.
C27_Witness ==
    /\ SaveFailed(Solo) /\ idx[Solo] = 2 /\ updates = 2
    /\ history[Len(history)].timestamp = timestamp[Solo]
    /\ history[Len(history)].video_id = fetched[Solo][1].videoId
    /\ DOMAIN metadata = {"lastUpdate", "totalVideos"}
    /\ metadata["lastUpdate"] # str(timestamp[Solo])

\* C29: on the native advisory backend release_update_lock does not propagate
\* a failure of the unlock call: a cycle that fetched and persisted without
\* an exception ends normally whenever its release_update_lock call is over,
\* the connection being closed, also when the unlock statement raised.
C29_UnlockFailureSwallowed ==
    [][(dialect = "postgresql" /\ pc[Solo] = "release" /\ ~exc[Solo] /\ pc'[Solo] = "idle")
       => (last'.how = "ok" /\ Solo \notin conns')]_vars

\* release_update_lock of the table backend ends with the lock row still
\* there: its DELETE raised.
ReleaseFailed ==
    /\ dialect = "sqlite"
    /\ pc[Solo] = "release" /\ pc'[Solo] = "idle"
    /\ locks' # {}

\* The row of a release that failed is still there while no cycle runs.
Lingering == dialect = "sqlite" /\ pc[Solo] \in {"idle", "acquire"} /\ locks # {}

\* Where a release fails update() returns, the exception logged, and the row
\* stays; the acquire of a later update() is refused while the row's expiry
\* has not passed and granted, the row taken over, once it has.
LingeringExpires ==
    /\ ReleaseFailed => last'.how = "logged" /\ locks' = locks
    /\ (Lingering /\ (Granted(Solo) \/ Refused(Solo))) =>
          IF \E r \in locks : r.expires_at < acq_now[Solo]
          THEN Granted(Solo) /\ locks' = {RowOf(Solo)}
          ELSE Refused(Solo) /\ locks' = locks

\* A cycle holds the lock it took over from a release that failed.
TookOver ==
    /\ dialect = "sqlite" /\ pc[Solo] = "fetch"
    /\ last.how = "logged" /\ last.held /\ last.release = 1

\* The cycle has fetched and persisted its batch and written the metadata.
FullCycle ==
    /\ pc[Solo] = "release" /\ ~exc[Solo]
    /\ idx[Solo] > Len(fetched[Solo])
    /\ HistoryOf(fetched[Solo], timestamp[Solo])
    /\ metadata["lastUpdate"] = str(timestamp[Solo])
    /\ metadata["totalVideos"] = str(Len(fetched[Solo]))

\* C30: a storage failure during lock release does not stop the process:
\* update() returns normally, the lingering table lock row blocks acquisition
\* only until its expiry has passed, and a later update() then acquires the
\* lock and runs a full cycle (unless a failure of its own or the death of
\* the process ends it).
C30_ReleaseFailureSurvived ==
    /\ [][LingeringExpires]_vars
    /\ (TookOver ~> (FullCycle \/ exc[Solo] \/ pc[Solo] = "crashed"))

\* C30 witness: the first cycle persisted its batch and both metadata
\* entries and its release failed, leaving the row; the second update(),
\* called after the row's expiry, took the row over and has saved its batch.
C30_Witness ==
    /\ dialect = "sqlite" /\ updates = 2
    /\ last.how = "logged" /\ last.held /\ last.release = 1
    /\ DOMAIN metadata = {"lastUpdate", "totalVideos"}
    /\ pc[Solo] = "save" /\ idx[Solo] > Len(fetched[Solo]) /\ Len(fetched[Solo]) > 0
    /\ metadata["lastUpdate"] # str(timestamp[Solo])
    /\ HistoryOf(fetched[Solo], timestamp[Solo])
    /\ locks = {RowOf(Solo)} /\ acq_now[Solo] > 1 + LockTtl

\* The calls op(key, .) among the direct calls made, in order.
CallsOf(op, key) == SelectSeq(store_calls, LAMBDA c : c.op = op /\ c.key = key)

\* The value passed by the most recent call op(key, .).
LastValue(op, key) == CallsOf(op, key)[Len(CallsOf(op, key))].value

\* The most recent direct call.
LastCall == store_calls[Len(store_calls)]

\* C23: set_metadata is an upsert where the last write wins per key: after
\* any sequence of set_metadata calls get_metadata(k) and
\* get_all_metadata()[k] are the value of the most recent set_metadata(k, .),
\* get_metadata of a key never set is None (and the key is not in
\* get_all_metadata()), and a set_metadata call leaves every other key as it
\* was.
C23_LastWriteWins ==
    /\ [](\A k \in MetaKeys :
            IF CallsOf("set_metadata", k) = <<>>
            THEN /\ get_metadata(metadata, k) = None
                 /\ k \notin DOMAIN get_all_metadata(metadata)
            ELSE /\ get_metadata(metadata, k) =
                       [none |-> FALSE, text |-> LastValue("set_metadata", k)]
                 /\ get_all_metadata(metadata)[k] = LastValue("set_metadata", k))
    /\ [][(metadata' # metadata) =>
             \A k \in MetaKeys \ {LastCall'.key} :
                get_metadata(metadata', k) = get_metadata(metadata, k)]_vars

\* C23 witness: lastUpdate was set twice, to different values, the second
\* being what is read, and totalVideos never.
C23_Witness ==
    /\ Len(CallsOf("set_metadata", "lastUpdate")) = 2
    /\ CallsOf("set_metadata", "lastUpdate")[1].value = str(3)
    /\ get_metadata(metadata, "lastUpdate") = [none |-> FALSE, text |-> str(12)]
    /\ get_metadata(metadata, "totalVideos") = None

\* The items saved by the direct calls.
Tracked == {v \in StoreVideos : CallsOf("save_video", v) # <<>>}

\* C24: get_top_videos(limit), limit >= 0, returns min(limit, number of
\* tracked items) items, no item twice, in non-increasing order of views,
\* with the ranks 1, 2, ... in that order, each with the view count of the
\* most recent save_video call for the item.
C24_TopVideos ==
    \A limit \in Limits :
        /\ get_top_videos(videos, limit) # {}
        /\ \A top \in get_top_videos(videos, limit) :
              /\ Len(top) = IF limit < Cardinality(Tracked) THEN limit
                            ELSE Cardinality(Tracked)
              /\ \A i \in 1..Len(top) :
                    /\ top[i].rank = i
                    /\ top[i].videoId \in Tracked
                    /\ top[i].views = LastValue("save_video", top[i].videoId)
              /\ \A i, j \in 1..Len(top) :
                    i < j => /\ top[i].views >= top[j].views
                             /\ top[i].videoId # top[j].videoId

\* C24 witness: three items are tracked, one of them saved twice, its views
\* going from the lowest to the highest, and it is the first of the two items
\* get_top_videos(2) returns.
C24_Witness ==
    /\ Cardinality(Tracked) = 3
    /\ \E v \in Tracked :
          /\ Len(CallsOf("save_video", v)) = 2
          /\ CallsOf("save_video", v)[1].value = 100
          /\ \E w \in Tracked : LastValue("save_video", w) = 100
          /\ \A top \in get_top_videos(videos, 2) :
                Len(top) = 2 /\ top[1].videoId = v /\ top[1].views = 200

\* The handles acquire_update_lock returned on the advisory backend that
\* release_update_lock has not been given yet, by the process holding them.
OutstandingHandles ==
    {p \in Procs : lock_handle[p].kind = "conn" /\ pc[p] # "crashed"}

\* C31: on the native advisory backend the dedicated connection of
\* acquire_update_lock is open exactly while a handle it returned is
\* outstanding: a denied attempt and an attempt that raised leave none open,
\* release_update_lock closes the handle's connection, so the open lock
\* connections are as many as the outstanding handles.
C31_ConnectionsMatchHandles ==
    /\ conns = OutstandingHandles
    /\ Cardinality(conns) = Cardinality(OutstandingHandles)
    /\ \A p \in Procs : pc[p] \in {"idle", "acquire"} => p \notin conns

\* C31 witness: on the advisory backend one cycle holds a handle, and the
\* attempt of another trigger was denied and has returned.
C31_Witness ==
    \E p, q \in Procs :
        /\ dialect = "postgresql" /\ p # q
        /\ pc[p] = "save" /\ conns = {p}
        /\ pc[q] = "idle" /\ last.proc = q /\ last.how = "skipped"

\* p holds the table lock: it is between its acquire and its release and the
\* row it wrote is there, not past its expiry.
HoldsLiveLock(p) ==
    /\ dialect = "sqlite" /\ pc[p] \in HeldPcs
    /\ RowOf(p) \in locks /\ now <= RowOf(p).expires_at

\* While p holds a live table lock the acquire of any other caller returns
\* None and leaves the row.
OthersRefused ==
    \A p, q \in Procs :
        (p # q /\ HoldsLiveLock(p) /\ (Granted(q) \/ Refused(q)))
            => (Refused(q) /\ locks' = locks)

\* C32: while a holder's table lock is neither released nor expired every
\* acquire_update_lock of another caller, one with the same host name
\* included, returns None; so two cycles of which none stays in its
\* lock-held part longer than TTL seconds after the clock reading of its
\* acquire never overlap.
C32_LiveLockExcludes ==
    /\ [][OthersRefused]_vars
    /\ [](\A p, q \in Procs :
            (p # q /\ dialect = "sqlite" /\ pc[p] \in HeldPcs /\ pc[q] \in HeldPcs)
                => overrun)

\* C32 witness: a trigger of the same host as the holder was turned away
\* while the holder's row was live, and the holder is still in its cycle.
C32_Witness ==
    \E p, q \in Procs :
        /\ p # q /\ host[p] = host[q] /\ HoldsLiveLock(p) /\ ~overrun
        /\ pc[p] = "save" /\ idx[p] = 2
        /\ pc[q] = "idle" /\ last.proc = q /\ last.how = "skipped"

\* C33: a table-based acquire_update_lock that fails (it returns None, or
\* raises) leaves the lock row unchanged: the live row is there before and
\* after with the same owner and the same expires_at.
C33_DeniedLeavesRow ==
    [][\A p \in Procs :
          /\ (dialect = "sqlite" /\ Refused(p)) =>
                /\ locks # {}
                /\ \A r \in locks : \E x \in locks' :
                      x.key = r.key /\ x.owner = r.owner /\ x.expires_at = r.expires_at
                /\ Cardinality(locks') = Cardinality(locks)
          /\ (dialect = "sqlite" /\ pc[p] = "acquire" /\ pc'[p] = "idle") =>
                locks' = locks]_vars

\* C33 witness: the attempt of a trigger on another host, made after the
\* holder's, was denied; the row is still the one the holder wrote.
C33_Witness ==
    \E p, q \in Procs :
        /\ dialect = "sqlite" /\ host[p] # host[q]
        /\ pc[p] \in HeldPcs /\ locks = {RowOf(p)} /\ now > acq_now[p]
        /\ pc[q] = "idle" /\ last.proc = q /\ last.how = "skipped"

\* The catalogs with a call that fails, or an item that makes the loop
\* raise, on a page the loop comes to.
FailingCatalogs == {CatalogListFails, CatalogStatsFail, CatalogStatsFailLater,
                    CatalogBlankCount, CatalogNoId}

\* The lists fetch_all_videos returns for the catalogs it reads to the end.
CompleteLists ==
    {fetch_all_videos(catalog).videos : catalog \in IngestCatalogs \ FailingCatalogs}

\* The history entries are, in order, the first items of a complete list.
HistoryFromComplete ==
    \E list \in CompleteLists :
        /\ Len(history) <= Len(list)
        /\ \A i \in 1..Len(history) :
              /\ history[i].video_id = list[i].videoId
              /\ history[i].view_count = list[i].viewCount

\* The fetch of the cycle raised; update() has not returned yet.
FetchFailed == pc[Solo] = "release" /\ exc[Solo] /\ idx[Solo] = 0

\* A step that changes tracked items, history or metadata is a step of a
\* cycle whose fetch_all_videos returned the list of a catalog read to the end.
PersistsAfterFetch ==
    (<<videos, history, history_id, metadata>>' # <<videos, history, history_id, metadata>>)
        => /\ pc[Solo] \in {"save", "meta"} /\ ~exc[Solo]
           /\ fetched[Solo] \in CompleteLists

\* C34: when fetching fails on any page of a cycle that cycle writes nothing
\* to tracked items, history or metadata: persistence starts only after
\* fetch_all_videos has returned the complete list, so a partially fetched
\* catalog is never persisted.
C34_PartialNeverPersisted ==
    /\ [](FailingCatalogs = {c \in IngestCatalogs : fetch_all_videos(c).raised})
    /\ [](pc[Solo] \in {"save", "meta"} => fetched[Solo] \in CompleteLists)
    /\ [](FetchFailed => (videos = {} /\ history = <<>> /\ metadata = <<>>))
    /\ [](HistoryFromComplete)
    /\ [][PersistsAfterFetch]_vars

\* C34 witness: the fetch of the first cycle has raised (among the catalogs
\* are ones that fail on a later page, after a page with its statistics was
\* read); the cycle holds the lock still and nothing is stored.
C34_Witness ==
    /\ FetchFailed /\ updates = 1 /\ calls[Solo].fetch = 1
    /\ lock_handle[Solo] # NoHandle
    /\ videos = {} /\ history = <<>> /\ metadata = <<>>
    /\ \E catalog \in IngestCatalogs :
          /\ fetch_all_videos(catalog).raised
          /\ Len(fetch_all_videos(catalog).log) >= 3

\* C35 (as stated): the lastUpdate metadata value never decreases, over any
\* interleaving of cycles, a stalled cycle that was superseded after its
\* lock expired and finishes later included; and the last_updated of a
\* tracked item never moves backwards.
C35_NeverBackwards ==
    [][/\ ("lastUpdate" \in DOMAIN metadata /\ "lastUpdate" \in DOMAIN metadata')
            => int(metadata'["lastUpdate"]) >= int(metadata["lastUpdate"])
       /\ \A v \in videos, w \in videos' :
            v.video_id = w.video_id => w.last_updated >= v.last_updated]_vars


\* C36 (as stated): every write to the tracked items and to the history is
\* made by a caller that holds the update lock: the store changes only in a
\* save step of a cycle holding its lock handle, and no request saves while
\* a cycle holds the lock.
C36_WritesUnderLock ==
    [][(<<videos, history, history_id>>' # <<videos, history, history_id>>)
          => \E p \in Procs : /\ pc[p] = "save" /\ lock_handle[p] # NoHandle
                              /\ idx'[p] = idx[p] + 1]_vars

\* schedule_updates has returned and the cron thread, if one was started,
\* has made its first step.
Registered == (loop_pc # "none" \/ jobs # <<>>) /\ loop_pc # "start"

\* The strategy schedule_updates registered.
RegisteredStrategy ==
    IF loop_pc # "none" THEN "cron"
    ELSE IF \E i \in 1..Len(jobs) : jobs[i].unit = "days" THEN "schedule"
    ELSE "interval"

\* C37 (as stated): for every configuration the strategy schedule_updates
\* registers is the strategy compute_next_update_timestamp computes with
\* (cron thread exactly for the cron branch, daily jobs exactly for the
\* fixed-times branch, the interval job otherwise), and some working trigger
\* is registered, also for a cron expression that normalizes but that the
\* cron library rejects.
C37_SameStrategy ==
    (Computed /\ Registered) =>
        /\ RegisteredStrategy = next_update.branch
        /\ loop_pc = "next" \/ jobs # <<>>

C39_EachItemOnce ==
    LET list == fetched[Solo]
        ids == {list[i].videoId : i \in 1..Len(list)}
    IN  /\ pc[Solo] \in {"save", "meta", "release"}
            => \A i, j \in 1..Len(list) : list[i].videoId = list[j].videoId => i = j
        /\ Persisted(Solo)
            => /\ int(metadata["totalVideos"]) = Cardinality(ids)
               /\ \A v \in ids :
                     Cardinality({r \in HistoryRows(history, v) :
                                     r.timestamp = timestamp[Solo]}) = 1

\* C40 (as stated): after every save_video(id, title, views, ts) the item's
\* snapshot holds (views, ts) and the item's history contains the entry
\* (ts, views) the call inserted: the prune of the same call never removes
\* it, whatever the order of the timestamps of the calls.
C40_SavedEntryKept ==
    [][(history_id' # history_id)
          => \E v \in videos' :
                \E r \in HistoryRows(history', v.video_id) :
                   /\ r.id = history_id'
                   /\ r.timestamp = v.last_updated
                   /\ r.view_count = v.current_views]_vars

====
